---- MODULE Spec2Model ----
(***************************************************************************)
(* polarize.py: sailing performance analysis from NMEA telemetry.          *)
(*                                                                         *)
(* Two specifications share the state of one race:                         *)
(*   SpecParse  the Telemetry Normalizer: parse_race_0183 / parse_race_n2k *)
(*              reading one record per step;                               *)
(*   Spec       the Leg Indexer and the Sample Aggregator: analyze_race    *)
(*              and analyze_leg run over the per-field series of a race.   *)
(*                                                                         *)
(* Number representation.  Python floats are modelled exactly where the    *)
(* code only adds, divides and compares: a bucket value is the fraction    *)
(* <<total, count>>, "None" is the empty tuple.  Timestamps are seconds.   *)
(* Angles are degrees, speeds are centi-knots.  The trigonometry of the    *)
(* true wind derivation is fixed point: a sine table in whole degrees      *)
(* scaled by TrigScale, atan2 to the nearest whole degree, sqrt rounded    *)
(* down.                                                                   *)
(***************************************************************************)
EXTENDS Integers, Sequences, FiniteSets, TLC

\* ------------------------------------------------------------------ bounds
\* Input timestamps are the multiples of TimeStep up to TimeStep * MaxTick.
TimeStep == 5
MaxTick == 3
\* Number of telemetry records a race holds before it is analysed.
MaxReadings == 3
\* Lines of a data file: NMEA 0183 sentences, N2K records.
MaxSentences == 4
MaxRecords == 3
\* File timestamps are 1..MaxClock; the race window is [RaceStart, MaxClock).
MaxClock == 4

Times == {TimeStep * k : k \in 0..MaxTick}

\* ------------------------------------------------------- program constants
sampleSeconds == 10
\* LATLONSOURCE = None, COGSOGSOURCE = None: no source filter
NoSource == -1
\* datetime(year=1970, ...): the clock before the first ZDA sentence
Epoch == 0

raceRawFields == {"AWA", "AWS", "STW", "RUD", "COG", "SOG", "HDG", "LATLON", "TWA", "TWD", "TWS"}
\* legFields without 'Time': the fields analyze_race indexes
legFields == {"TWA", "TWD", "TWS", "AWA", "AWS", "STW", "RUD", "COG", "SOG", "HDG"}
\* the fields analyze_leg averages linearly, and those it averages as angles
linearFields == {"AWA", "AWS", "STW", "SOG", "RUD", "TWS"}
angularFields == {"COG", "HDG", "TWD"}
\* every key of a bucket but 'ts'
bucketFields == linearFields \cup angularFields \cup {"TWA"}

\* Python's None
Null == <<>>

VARIABLES
    r,          \* the race: field name -> sequence of <<timestamp, value>>
    legs,       \* r['legs']: sequence of leg records, empty before analyze_race
    course,     \* bearings of the course legs read so far by analyze_leg
    pc,         \* position of the main program: "parse", "parsed", "failed",
                \* "load", "indexed", "analyzed"
    err,        \* the exception that ended the run, "none" while it runs
    enc,        \* encoding of the race's data file: "0183", "n2k" ("none": no file)
    race,       \* r['startts'], r['endts']
    ts,         \* the parsers' ts: the 0183 clock, the N2K record's timestamp
    chrono,     \* history: the timestamps read so far never went back
    variation,  \* the parser's local compass variation
    rvariation, \* r['variation']
    sampleCount,    \* records kept
    recordCount,    \* sentenceCount / pgnCount: records seen inside the window
    nread,          \* lines read from the file so far
    positions,      \* history: the position records of the wanted source read so far
    rudderCorrection, LATLONSOURCE, COGSOGSOURCE,   \* process-wide configuration
    board,      \* analyze_by_minute: the tag of the board being scanned
    bstart,     \* analyze_by_minute: the start of the board being scanned
    bend,       \* analyze_by_minute: its end so far
    boards,     \* l['boards']: sequence of <<start, end, tag>>
    sampleIndex,    \* analyze_by_minute: the i of the scan over legSamples
    boardIndex,     \* analyze_by_minute: the boards reported so far
    items,          \* analyze_by_minute: the rows of the report
    races,      \* len(regatta['races']): the races of the regatta, 0 or 1
    polarData,  \* polarData[p]['data']: the observations of each wind range
    points,     \* plot_polars: the sector points of the range being plotted
    flagged,    \* plot_polars: the indexes printed as "## Backwards"
    curves,     \* plot_polars: the points of the starboard and port curves
    firstRun,   \* history: the legs and bearings a first pass over the race left
    args,       \* args.regatta: the regatta descriptions named on the command line
    argi,       \* main: the position of the next description to parse
    regattalist,    \* regattalist: the names of the regattas parsed
    regattas,   \* regattas[name]: the regatta parsed under that name
    at,         \* main: <<regatta, race>> position of the race loop
    tzoffset,   \* tzoffset: None, or the hours of the regatta being processed
    files,      \* the raw data files that exist
    jsons,      \* the structured files: "absent", or what the file holds
    invoked,    \* history: the conversions run, in order
    processed,  \* history: the races parsed, indexed and bucketed, with their run
    started     \* the number of runs of the program started so far

parseVars == <<enc, race, ts, chrono, variation, rvariation, sampleCount, recordCount, nread,
               positions,
               rudderCorrection, LATLONSOURCE, COGSOGSOURCE>>
reportVars == <<board, bstart, bend, boards, sampleIndex, boardIndex, items>>
polarVars == <<races, polarData, points, flagged, curves>>
mainVars == <<args, argi, regattalist, regattas, at, tzoffset, files, jsons, invoked, processed, started>>
vars == <<r, legs, course, pc, err, parseVars, reportVars, polarVars, firstRun, mainVars>>

\* ------------------------------------------------------------- fractions
\* A non-null bucket value <<n, d>> stands for n / d, d > 0.
QLt(a, b) == a[1] * b[2] < b[1] * a[2]
QLe(a, b) == a[1] * b[2] <= b[1] * a[2]
QEq(a, b) == a[1] * b[2] = b[1] * a[2]
QInt(n) == <<n, 1>>
\* nearest whole number, halves up
QRound(a) == (2 * a[1] + a[2]) \div (2 * a[2])
\* math.fmod(x, m): the remainder carries the sign of x
Fmod(n, m) == IF n >= 0 THEN n % m ELSE 0 - ((0 - n) % m)

\* ------------------------------------------------------------ analyze_race
\* (mutant) the cursor also steps over a reading at the bound itself
RECURSIVE AdvancePastBound(_, _, _)
AdvancePastBound(s, i, bound) ==
    IF i < Len(s) /\ s[i + 1][1] <= bound THEN AdvancePastBound(s, i + 1, bound) ELSE i

\* while (i < len(r[field])) and (r[field][i][0] < bound): i += 1
RECURSIVE Advance(_, _, _)
Advance(s, i, bound) ==
    IF i < Len(s) /\ s[i + 1][1] < bound THEN Advance(s, i + 1, bound) ELSE i

\* (mutant) eindex is the leg's last reading, not one past it
RECURSIVE IndexLegsInclusive(_, _, _, _)
IndexLegsInclusive(s, cfg, k, i) ==
    IF k > Len(cfg) THEN <<>>
    ELSE LET si == Advance(s, i, cfg[k].startts)
             ei == Advance(s, si, cfg[k].endts)
         IN  <<[s |-> si, e |-> ei - 1]>> \o IndexLegsInclusive(s, cfg, k + 1, ei)

\* One field's forward-only cursor over the legs k.. of cfg, starting at i:
\* the sequence of [s |-> sindex, e |-> eindex], one per leg.
RECURSIVE IndexLegs(_, _, _, _)
IndexLegs(s, cfg, k, i) ==
    IF k > Len(cfg) THEN <<>>
    ELSE LET si == Advance(s, i, cfg[k].startts)
             ei == Advance(s, si, cfg[k].endts)
         IN  <<[s |-> si, e |-> ei]>> \o IndexLegs(s, cfg, k + 1, ei)

\* legInit: the leg record of one configured leg window
legInit(l) ==
    [startts |-> l.startts, endts |-> l.endts,
     sindex |-> [f \in legFields |-> 0], eindex |-> [f \in legFields |-> 0],
     samples |-> <<>>]

\* The configured legs of a race: one or two windows, in chronological order
\* and not overlapping.
LegConfigs ==
    {<<[startts |-> a, endts |-> b]>> : a, b \in Times} \cup
    {<<[startts |-> a, endts |-> b], [startts |-> c, endts |-> d]>> : a, b, c, d \in Times}

OrderedLegs(cfg) ==
    /\ \A k \in 1..Len(cfg) : cfg[k].startts < cfg[k].endts
    /\ \A k \in 1..(Len(cfg) - 1) : cfg[k].endts <= cfg[k + 1].startts

OrderedLegConfigs == {cfg \in LegConfigs : OrderedLegs(cfg)}

analyze_race(cfg) ==
    /\ pc = "load"
    /\ legs' = [k \in 1..Len(cfg) |->
                  [legInit(cfg[k]) EXCEPT
                     !.sindex = [f \in legFields |-> IndexLegs(r[f], cfg, 1, 0)[k].s],
                     !.eindex = [f \in legFields |-> IndexLegs(r[f], cfg, 1, 0)[k].e]]]
    /\ pc' = "indexed"
    /\ UNCHANGED <<r, course, err, parseVars, reportVars, polarVars, firstRun, mainVars>>

\* ------------------------------------------------------------- analyze_leg
\* markBearing > 90 and markBearing < 270: the leg does not go "north-ish"
SouthBucket(markBearing) == markBearing > 90 /\ markBearing < 270

\* Advance to the beginning of the run of data for this bucket
RECURSIVE SkipRun(_, _, _, _)
SkipRun(s, i, e, bucketStart) ==
    IF i < e /\ s[i + 1][1] < bucketStart THEN SkipRun(s, i + 1, e, bucketStart) ELSE i

\* total += d[1]; count += 1 over the run of readings before bucketEnd
RECURSIVE SumLinear(_, _, _, _, _, _)
SumLinear(s, i, e, bucketEnd, total, count) ==
    IF i < e /\ s[i + 1][1] < bucketEnd
    THEN SumLinear(s, i + 1, e, bucketEnd, total + s[i + 1][2], count + 1)
    ELSE [total |-> total, count |-> count, idx |-> i]

\* d[1] if (markBearing > 90 and markBearing < 270) or (d[1] <= 180) else d[1] - 360.0
AngleTerm(v, markBearing) ==
    IF SouthBucket(markBearing) \/ v <= 180 THEN v ELSE v - 360

RECURSIVE SumAngular(_, _, _, _, _, _, _)
SumAngular(s, i, e, bucketEnd, total, count, markBearing) ==
    IF i < e /\ s[i + 1][1] < bucketEnd
    THEN SumAngular(s, i + 1, e, bucketEnd,
                    total + AngleTerm(s[i + 1][2], markBearing), count + 1, markBearing)
    ELSE [total |-> total, count |-> count, idx |-> i]

\* (mutant) a bucket without readings averages to zero
LinearMeanOrZero(run) == IF run.count = 0 THEN <<0, 1>> ELSE <<run.total, run.count>>
\* bucket[field] = None if count == 0 else total / count
LinearMean(run) == IF run.count = 0 THEN Null ELSE <<run.total, run.count>>

\* the mean, converted "back to 0 - 360 if needed":
\* += 0.0 if (markBearing > 90 and markBearing < 270) or (bucket[field] > 0) else 360.0
AngularMean(run, markBearing) ==
    IF run.count = 0 THEN Null
    ELSE IF SouthBucket(markBearing) \/ run.total > 0
         THEN <<run.total, run.count>>
         ELSE <<run.total + 360 * run.count, run.count>>

\* One field of one bucket: the run of l's readings in [bucketStart, bucketEnd)
\* from the field's cursor i on.
FieldRun(l, f, i, bucketStart, bucketEnd, markBearing) ==
    LET i0 == SkipRun(r[f], i, l.eindex[f], bucketStart)
    IN  IF f \in angularFields
        THEN SumAngular(r[f], i0, l.eindex[f], bucketEnd, 0, 0, markBearing)
        ELSE SumLinear(r[f], i0, l.eindex[f], bucketEnd, 0, 0)

FieldMean(run, f, markBearing) ==
    IF f \in angularFields THEN AngularMean(run, markBearing) ELSE LinearMean(run)

\* the runs of every averaged field of one bucket, and the bucket as averaged
\* from them, before the true wind step
BucketRuns(l, index, bucketStart, bucketEnd, markBearing) ==
    [f \in linearFields \cup angularFields |->
        FieldRun(l, f, index[f], bucketStart, bucketEnd, markBearing)]
AveragedBucket(runs, markBearing) ==
    [f \in linearFields \cup angularFields |-> FieldMean(runs[f], f, markBearing)]

\* ----------------------------------------------------------- trigonometry
SinTable ==
    <<0, 175, 349, 523, 698, 872, 1045, 1219, 1392, 1564, 1736, 1908, 2079, 2250,
      2419, 2588, 2756, 2924, 3090, 3256, 3420, 3584, 3746, 3907, 4067, 4226, 4384,
      4540, 4695, 4848, 5000, 5150, 5299, 5446, 5592, 5736, 5878, 6018, 6157, 6293,
      6428, 6561, 6691, 6820, 6947, 7071, 7193, 7314, 7431, 7547, 7660, 7771, 7880,
      7986, 8090, 8192, 8290, 8387, 8480, 8572, 8660, 8746, 8829, 8910, 8988, 9063,
      9135, 9205, 9272, 9336, 9397, 9455, 9511, 9563, 9613, 9659, 9703, 9744, 9781,
      9816, 9848, 9877, 9903, 9925, 9945, 9962, 9976, 9986, 9994, 9998, 10000>>

\* the table's scale: sin 90
TrigScale == SinTable[91]

\* sin and cos of a whole number of degrees, scaled by TrigScale
Sin(deg) ==
    LET a == deg % 360
    IN  IF a <= 90 THEN SinTable[a + 1]
        ELSE IF a <= 180 THEN SinTable[180 - a + 1]
        ELSE IF a <= 270 THEN 0 - SinTable[a - 180 + 1]
        ELSE 0 - SinTable[360 - a + 1]
Cos(deg) == Sin(deg + 90)

\* atan2(y, x) to the nearest whole degree, in (-180, 180]; atan2(0, 0) is 0.
\* Cross(y, x, d) has the sign of the angle from direction d to (x, y): the
\* whole degree below the angle is the last one of the quadrant it is not
\* negative for, and the angle is nearer to the degree above when it is
\* farther from the one below.
Quadrant(y, x) ==
    IF y >= 0 THEN (IF x >= 0 THEN 0..90 ELSE 90..180)
    ELSE (IF x >= 0 THEN -90..0 ELSE -180..-90)
Cross(y, x, d) == y * Cos(d) - x * Sin(d)
DegreeBelow(y, x) ==
    CHOOSE d \in Quadrant(y, x) :
        /\ Cross(y, x, d) >= 0
        /\ \A e \in Quadrant(y, x) : Cross(y, x, e) >= 0 => e <= d
Atan2(y, x) ==
    IF x = 0 /\ y = 0 THEN 0
    ELSE LET d == DegreeBelow(y, x)
             n == IF Cross(y, x, d) + Cross(y, x, d + 1) > 0 THEN d + 1 ELSE d
         IN  IF n = -180 THEN 180 ELSE n

\* sqrt, rounded down (the root of a 31-bit number is below 46341)
RECURSIVE SqrtBetween(_, _, _)
SqrtBetween(n, lo, hi) ==
    IF hi - lo <= 1 THEN lo
    ELSE LET mid == (lo + hi) \div 2
         IN  IF mid * mid <= n THEN SqrtBetween(n, mid, hi) ELSE SqrtBetween(n, lo, mid)
Sqrt(n) == SqrtBetween(n, 0, 46341)

\* ------------------------------------------------------ true wind, buckets
\* (mutant) the direction the wind goes to: pi is not added
DerivedWindGoingTo(b) ==
    LET hdg == QRound(b["HDG"])
        aws == QRound(b["AWS"])
        awa == QRound(b["AWA"])
        cog == QRound(b["COG"])
        sog == QRound(b["SOG"])
        awd == Fmod(hdg + awa, 360)
        u   == ((sog * Cos(cog)) - (aws * Cos(awd))) \div TrigScale
        v   == ((sog * Sin(cog)) - (aws * Sin(awd))) \div TrigScale
    IN  [tws |-> Sqrt((u * u) + (v * v)),
         twd |-> Fmod(Atan2(v, u) + 360, 360)]

\* Compute TWS and TWD for this bucket, TWA from TWD and heading
DerivedWind(b) ==
    LET hdg == QRound(b["HDG"])
        aws == QRound(b["AWS"])
        awa == QRound(b["AWA"])
        cog == QRound(b["COG"])
        sog == QRound(b["SOG"])
        awd == Fmod(hdg + awa, 360)
        u   == ((sog * Cos(cog)) - (aws * Cos(awd))) \div TrigScale
        v   == ((sog * Sin(cog)) - (aws * Sin(awd))) \div TrigScale
    IN  [tws |-> Sqrt((u * u) + (v * v)),
         \* where it's from, not where it's going, so add pi
         twd |-> Fmod(Atan2(v, u) + 180, 360)]

\* twa = fmod((bucket['TWD'] - bucket['HDG']) + 360.0, 360.0)
TrueWindAngle(twd, hdg) ==
    <<Fmod(twd[1] * hdg[2] - hdg[1] * twd[2] + 360 * twd[2] * hdg[2], 360 * twd[2] * hdg[2]),
      twd[2] * hdg[2]>>

\* the bucket with no true wind: TWD, TWS and TWA None
NoWind(b) == [f \in bucketFields |-> IF f \in {"TWD", "TWS", "TWA"} THEN Null ELSE b[f]]

\* lines 590-610: the derivation proper.  radians(None) and None - x raise
\* TypeError.
WindFrom(b) ==
    IF b["HDG"] = Null \/ b["COG"] = Null \/ b["SOG"] = Null \/ b["AWA"] = Null \/ b["AWS"] = Null
    THEN [err |-> "TypeError", bucket |-> NoWind(b)]
    ELSE LET w   == DerivedWind(b)
             \* Compute TWD, TWS if it's not done by the instruments
             TWS == IF b["TWD"] = Null THEN QInt(w.tws) ELSE b["TWS"]
             TWD == IF b["TWD"] = Null THEN QInt(w.twd) ELSE b["TWD"]
         IN  [err |-> "none",
              bucket |-> [f \in bucketFields |->
                            IF f = "TWS" THEN TWS
                            ELSE IF f = "TWD" THEN TWD
                            ELSE IF f = "TWA" THEN TrueWindAngle(TWD, b["HDG"])
                            ELSE b[f]]]

\* (mutant) the guard forgets the heading
TrueWindUnlessNoCourse(b) ==
    IF b["COG"] = Null \/ b["SOG"] = Null \/ b["AWA"] = Null \/ b["AWS"] = Null
    THEN [err |-> "none", bucket |-> NoWind(b)]
    ELSE WindFrom(b)

\* lines 584-610: the bucket after the true wind step.  Can't compute True
\* Wind w/o HDG, COG, SOG and AWA, AWS
TrueWind(b) ==
    IF b["HDG"] = Null \/ b["COG"] = Null \/ b["SOG"] = Null \/ b["AWA"] = Null \/ b["AWS"] = Null
    THEN [err |-> "none", bucket |-> NoWind(b)]
    ELSE WindFrom(b)

\* (mutant) every bucket is appended once, empty or not
AppendsOnce(bucket) == 1

\* for key, value in bucket.items(): if key != 'ts' and value != None: append
\* (the loop goes on after an append: one append per non-null field)
Appends(bucket) == Cardinality({f \in bucketFields : bucket[f] # Null})

Min(a, b) == IF a < b THEN a ELSE b

\* while bucketStart < l['endts']: the samples of leg l, and the exception
\* that ended the loop
RECURSIVE BucketLoop(_, _, _, _, _)
BucketLoop(l, markBearing, bucketStart, index, samples) ==
    IF ~(bucketStart < l.endts) THEN [samples |-> samples, err |-> "none"]
    ELSE LET bucketEnd == Min(bucketStart + sampleSeconds, l.endts)
             runs   == BucketRuns(l, index, bucketStart, bucketEnd, markBearing)
             wind   == TrueWind(AveragedBucket(runs, markBearing))
             bucket == [f \in bucketFields \cup {"ts"} |->
                          IF f = "ts" THEN bucketStart ELSE wind.bucket[f]]
             n      == Appends(wind.bucket)
         IN  IF wind.err # "none" THEN [samples |-> samples, err |-> wind.err]
             ELSE BucketLoop(l, markBearing, bucketEnd,
                             [f \in DOMAIN runs |-> runs[f].idx],
                             IF n = 0 THEN samples ELSE samples \o [i \in 1..n |-> bucket])

Bearings == {0, 90, 180}

\* main: for leg in range(len(race["legs"])): analyze_leg(reg, race, leg)
analyze_leg(leg, markBearing) ==
    LET run == BucketLoop(legs[leg], markBearing, legs[leg].startts,
                          [f \in linearFields \cup angularFields |-> legs[leg].sindex[f]],
                          <<>>)
    IN  /\ pc = "indexed"
        /\ leg = Len(course) + 1
        /\ leg <= Len(legs)
        /\ legs' = [legs EXCEPT ![leg].samples = run.samples]
        /\ course' = Append(course, markBearing)
        /\ err' = run.err
        /\ pc' = IF run.err # "none" THEN "failed"
                 ELSE IF leg = Len(legs) THEN "analyzed" ELSE "indexed"
        /\ UNCHANGED <<r, parseVars, reportVars, polarVars, firstRun, mainVars>>

\* ------------------------------------------------------------ the readings
\* The telemetry of the race under analysis: readings arrive in time order,
\* each appended to the series of its field(s) as the parsers append them.
HdgValues == {0, 10, 350}
CogValues == {0}
SogValues == {500}
AwaValues == {90}
AwsValues == {1000}
StwValues == {600}
RudValues == {2, 5}
TwdValues == {200}
TwsValues == {1200}

NReadings ==
    Len(r["HDG"]) + Len(r["COG"]) + Len(r["AWA"]) + Len(r["STW"]) + Len(r["RUD"])
        + Len(r["TWD"])

InOrder(f, t) == IF Len(r[f]) = 0 THEN TRUE ELSE r[f][Len(r[f])][1] <= t

CanSupply(f, t) == pc = "load" /\ NReadings < MaxReadings /\ InOrder(f, t)

SupplyHDG(t, v) ==
    /\ CanSupply("HDG", t)
    /\ r' = [r EXCEPT !["HDG"] = Append(@, <<t, v>>)]
    /\ UNCHANGED <<legs, course, pc, err, parseVars, reportVars, polarVars, firstRun, mainVars>>

SupplyCOGSOG(t, cog, sog) ==
    /\ CanSupply("COG", t)
    /\ r' = [r EXCEPT !["COG"] = Append(@, <<t, cog>>), !["SOG"] = Append(@, <<t, sog>>)]
    /\ UNCHANGED <<legs, course, pc, err, parseVars, reportVars, polarVars, firstRun, mainVars>>

SupplyWind(t, awa, aws) ==
    /\ CanSupply("AWA", t)
    /\ r' = [r EXCEPT !["AWA"] = Append(@, <<t, awa>>), !["AWS"] = Append(@, <<t, aws>>)]
    /\ UNCHANGED <<legs, course, pc, err, parseVars, reportVars, polarVars, firstRun, mainVars>>

SupplySTW(t, v) ==
    /\ CanSupply("STW", t)
    /\ r' = [r EXCEPT !["STW"] = Append(@, <<t, v>>)]
    /\ UNCHANGED <<legs, course, pc, err, parseVars, reportVars, polarVars, firstRun, mainVars>>

SupplyRUD(t, v) ==
    /\ CanSupply("RUD", t)
    /\ r' = [r EXCEPT !["RUD"] = Append(@, <<t, v>>)]
    /\ UNCHANGED <<legs, course, pc, err, parseVars, reportVars, polarVars, firstRun, mainVars>>

\* True wind as an instrument reports it: direction and speed together (the
\* series analyze_leg reads from r['TWD'] and r['TWS'])
SupplyTrueWind(t, twd, tws) ==
    /\ CanSupply("TWD", t)
    /\ r' = [r EXCEPT !["TWD"] = Append(@, <<t, twd>>), !["TWS"] = Append(@, <<t, tws>>)]
    /\ UNCHANGED <<legs, course, pc, err, parseVars, reportVars, polarVars, firstRun, mainVars>>

\* ------------------------------------------------------- the specification
\* The state parse_regatta leaves for one race: every raw field an empty list
NoFile ==
    /\ enc = "none"
    /\ race = [startts |-> 0, endts |-> 0]
    /\ ts = Epoch
    /\ chrono = TRUE
    /\ variation = 0
    /\ rvariation = 0
    /\ sampleCount = 0
    /\ recordCount = 0
    /\ nread = 0
    /\ positions = 0
    /\ rudderCorrection = 0
    /\ LATLONSOURCE = NoSource
    /\ COGSOGSOURCE = NoSource

\* before analyze_by_minute: no board
NoBoards ==
    /\ board = "none"
    /\ bstart = 0
    /\ bend = 0
    /\ boards = <<>>
    /\ sampleIndex = 0
    /\ boardIndex = 0
    /\ items = <<>>

\* outside a run of main: no description, no file
NoRun ==
    /\ args = <<>>
    /\ argi = 1
    /\ regattalist = <<>>
    /\ regattas = <<>>
    /\ at = <<1, 1>>
    /\ tzoffset = Null
    /\ files = {}
    /\ jsons = <<>>
    /\ invoked = <<>>
    /\ processed = <<>>
    /\ started = 1

\* polarData as the module defines it, before plot_polars
NoPolars ==
    /\ races = 1
    /\ polarData = [p \in 1..6 |-> <<>>]
    /\ points = <<>>
    /\ flagged = {}
    /\ curves = [stbd |-> <<>>, port |-> <<>>]
    /\ firstRun = <<>>
    /\ NoRun

Init ==
    /\ r = [f \in raceRawFields |-> <<>>]
    /\ legs = <<>>
    /\ course = <<>>
    /\ pc = "load"
    /\ err = "none"
    /\ NoFile
    /\ NoBoards
    /\ NoPolars

Next ==
    \/ \E t \in Times, v \in HdgValues : SupplyHDG(t, v)
    \/ \E t \in Times, c \in CogValues, s \in SogValues : SupplyCOGSOG(t, c, s)
    \/ \E t \in Times, a \in AwaValues, s \in AwsValues : SupplyWind(t, a, s)
    \/ \E t \in Times, v \in StwValues : SupplySTW(t, v)
    \/ \E t \in Times, v \in RudValues : SupplyRUD(t, v)
    \/ \E t \in Times, d \in TwdValues, s \in TwsValues : SupplyTrueWind(t, d, s)
    \/ \E cfg \in OrderedLegConfigs : analyze_race(cfg)
    \/ \E leg \in 1..2, b \in Bearings : analyze_leg(leg, b)

Spec == Init /\ [][Next]_vars

\* ==================================================== Telemetry Normalizer
\* Convert meters per second to knots (here centi-m/s to centi-knots)
ms2kts(ms) == (ms * 194384) \div 100000

\* parse_race_0183: awa = awa if awa < 180 else awa - 360
Normalize0183(awa) == IF awa < 180 THEN awa ELSE awa - 360
\* parse_race_n2k: awa = awa if awa <= 180.0 else awa - 360.0
NormalizeN2K(awa) == IF awa <= 180 THEN awa ELSE awa - 360

\* degrees + decimal minutes with a hemisphere letter, in minutes of arc:
\* (float(d) + float(m)/60) * (1 if positive else -1)
ArcMinutes(d, m, positive) == (d * 60 + m) * (IF positive THEN 1 ELSE -1)

ClockTimes == 1..MaxClock
RaceStart == 2
WindAngles == {90, 180, 270, 360}
WindSpeeds == {1000}
Headings == {280}
Courses == {5}
Speeds == {500}
Variations == {13}
RudderPositions == {19}
Sources == {1, 21}
Fixes == {[latd |-> 37, latm |-> 48, ns |-> "N", lond |-> 122, lonm |-> 27, ew |-> "W"]}

\* what a record handler leaves: the series, the variation, the samples kept
\* and the exception raised
Keep == [r |-> r, variation |-> variation, rvariation |-> rvariation,
         samples |-> 0, positions |-> 0, err |-> "none"]
\* (mutant) the entry is put in front of the series
PutFirst(f, v) == [Keep EXCEPT !.r = [r EXCEPT ![f] = <<v>> \o @], !.samples = 1]
\* r[field].append(...); sampleCount += 1
Put(f, v) == [Keep EXCEPT !.r = [r EXCEPT ![f] = Append(@, v)], !.samples = 1]
Put2(f, v, g, w) ==
    [Keep EXCEPT !.r = [r EXCEPT ![f] = Append(@, v), ![g] = Append(@, w)], !.samples = 1]
Raise(e) == [Keep EXCEPT !.err = e]

\* The part of the read loop every line goes through: lines before the race
\* start are skipped, the first line at or after the race end stops the scan,
\* a line inside the window is counted and handled (eff).
InWindow(t, eff) ==
    /\ pc = "parse"
    /\ nread' = nread + 1
    /\ IF t < race.startts
       THEN UNCHANGED <<r, sampleCount, recordCount, pc, err>>
       ELSE IF t >= race.endts
       THEN /\ pc' = "parsed"
            /\ UNCHANGED <<r, sampleCount, recordCount, err>>
       ELSE /\ recordCount' = recordCount + 1
            /\ r' = eff.r
            /\ sampleCount' = sampleCount + eff.samples
            /\ err' = eff.err
            /\ pc' = IF eff.err = "none" THEN "parse" ELSE "failed"
    /\ UNCHANGED <<legs, course, enc, race, rudderCorrection, LATLONSOURCE, COGSOGSOURCE,
                   reportVars, polarVars, firstRun, mainVars>>

\* ---------------------------------------------------------- parse_race_0183
Line0183(newts, eff) ==
    /\ enc = "0183"
    /\ nread < MaxSentences
    /\ ts' = newts
    /\ chrono' = (chrono /\ ts <= newts)
    /\ variation' = IF newts < race.startts \/ newts >= race.endts
                    THEN variation ELSE eff.variation
    /\ rvariation' = IF newts < race.startts \/ newts >= race.endts
                     THEN rvariation ELSE eff.rvariation
    /\ positions' = positions
    /\ InWindow(newts, eff)

\* $GPZDA: the GPS time stamp sets the clock
ZDA(t) == Line0183(t, Keep)

\* $PSIQREC, $WIMWD, MWV tagged 'T' and every sentence not interpreted
Ignored0183 == Line0183(ts, Keep)

\* $GPGLL: LAT/LON, South and West negative
GLL(fix) ==
    Line0183(ts, Put("LATLON", <<ts, ArcMinutes(fix.latd, fix.latm, fix.ns = "N"),
                                ArcMinutes(fix.lond, fix.lonm, fix.ew = "E")>>))

\* $SDHDG: heading, with the magnetic variation when the sentence carries it
HDG(hdg, hasVariation, v, east) ==
    LET var == IF hasVariation THEN v * (IF east THEN 1 ELSE -1) ELSE variation
    IN  Line0183(ts, [Put("HDG", <<ts, hdg>>) EXCEPT
                        !.variation = var,
                        !.rvariation = IF hasVariation THEN var ELSE rvariation])

\* $WIMWV tagged 'R': apparent wind, speed in knots (unit 'N'); unit 'M'
\* calls m2k, which the program does not define
MWV(angle, speed, unit) ==
    Line0183(ts, IF unit = "M" THEN Raise("NameError")
                 ELSE [Put2("AWA", <<ts, Normalize0183(angle)>>, "AWS", <<ts, speed>>)
                         EXCEPT !.samples = 0])

\* $SDVHW: speed through water
VHW(stw) == Line0183(ts, Put("STW", <<ts, stw>>))

\* $GPVTG: magnetic COG and SOG
VTG(cog, sog) == Line0183(ts, Put2("COG", <<ts, cog>>, "SOG", <<ts, sog>>))

\* an interpreted sentence whose fields do not convert: float() / int() raise
Malformed0183 == Line0183(ts, Raise("ValueError"))

\* ----------------------------------------------------------- parse_race_n2k
RecordN2K(t, eff) ==
    /\ enc = "n2k"
    /\ nread < MaxRecords
    /\ ts' = t
    /\ chrono' = (chrono /\ ts <= t)
    /\ variation' = eff.variation
    /\ rvariation' = eff.rvariation
    /\ positions' = positions + eff.positions
    /\ InWindow(t, eff)

\* 127258 Magnetic Variation: read, and stored in r['variation'], before the
\* window test
PGN127258(t, v) == RecordN2K(t, [Keep EXCEPT !.variation = v, !.rvariation = v])

\* (mutant) the position is recorded whatever its timestamp
PGN129025Anywhere(t, src, fix) ==
    /\ enc = "n2k"
    /\ pc = "parse"
    /\ nread < MaxRecords
    /\ nread' = nread + 1
    /\ ts' = t
    /\ chrono' = (chrono /\ ts <= t)
    /\ r' = [r EXCEPT !["LATLON"] = Append(@, <<t, ArcMinutes(fix.latd, fix.latm, fix.ns = "N"),
                                                ArcMinutes(fix.lond, fix.lonm, fix.ew = "E")>>)]
    /\ positions' = positions + 1
    /\ UNCHANGED <<legs, course, pc, err, enc, race, variation, rvariation, sampleCount,
                   recordCount, rudderCorrection, LATLONSOURCE, COGSOGSOURCE,
                   reportVars, polarVars, firstRun, mainVars>>

\* 129025 Position, of the designated source when one is set
PGN129025(t, src, fix) ==
    RecordN2K(t, IF LATLONSOURCE = NoSource \/ src = LATLONSOURCE
                 THEN [Put("LATLON", <<t, ArcMinutes(fix.latd, fix.latm, fix.ns = "N"),
                                      ArcMinutes(fix.lond, fix.lonm, fix.ew = "E")>>)
                         EXCEPT !.positions = 1]
                 ELSE Keep)

\* 127245 Rudder: only instance 0 is recorded, every instance is counted
PGN127245(t, instance, position) ==
    RecordN2K(t, IF instance = 0
                 THEN Put("RUD", <<t, position + rudderCorrection>>)
                 ELSE [Keep EXCEPT !.samples = 1])

\* 127250 Vessel Heading
PGN127250(t, heading) == RecordN2K(t, Put("HDG", <<t, heading>>))

\* 128259 Speed, water referenced
PGN128259(t, ms) == RecordN2K(t, Put("STW", <<t, ms2kts(ms)>>))

\* 129026 COG & SOG, of the designated source when one is set; a true course
\* is made magnetic with the current variation
PGN129026(t, src, cog, isTrue, sog) ==
    RecordN2K(t, IF COGSOGSOURCE = NoSource \/ src = COGSOGSOURCE
                 THEN Put2("COG", <<t, IF isTrue THEN cog - variation ELSE cog>>,
                           "SOG", <<t, ms2kts(sog)>>)
                 ELSE Keep)

\* 130306 Wind Data
PGN130306(t, angle, speed) ==
    RecordN2K(t, Put2("AWS", <<t, ms2kts(speed)>>, "AWA", <<t, NormalizeN2K(angle)>>))

\* any other PGN of the file
OtherPGN(t) == RecordN2K(t, Keep)

\* a line json.loads or strptime rejects: raised before the window test
MalformedN2K ==
    /\ enc = "n2k"
    /\ pc = "parse"
    /\ nread < MaxRecords
    /\ nread' = nread + 1
    /\ err' = "ValueError"
    /\ pc' = "failed"
    /\ UNCHANGED <<r, legs, course, enc, race, ts, chrono, variation, rvariation, sampleCount, positions,
                   recordCount, rudderCorrection, LATLONSOURCE, COGSOGSOURCE, reportVars, polarVars, firstRun, mainVars>>

\* readline() returns '': the end of the file
EndOfFile ==
    /\ pc = "parse"
    /\ pc' = "parsed"
    /\ UNCHANGED <<r, legs, course, err, parseVars, reportVars, polarVars, firstRun, mainVars>>

\* parse_regatta, then parse_race opening the race's file: race fields empty,
\* r['LATLON'] = [], r['variation'] = 0, the 0183 clock at the epoch
InitParse ==
    /\ r = [f \in raceRawFields |-> <<>>]
    /\ legs = <<>>
    /\ course = <<>>
    /\ pc = "parse"
    /\ err = "none"
    /\ enc \in {"0183", "n2k"}
    /\ race = [startts |-> RaceStart, endts |-> MaxClock]
    /\ ts = Epoch
    /\ chrono = TRUE
    /\ variation = 0
    /\ rvariation = 0
    /\ sampleCount = 0
    /\ recordCount = 0
    /\ nread = 0
    /\ positions = 0
    /\ rudderCorrection \in {0, 3}
    /\ LATLONSOURCE \in {NoSource, 1}
    /\ COGSOGSOURCE = LATLONSOURCE
    /\ NoBoards
    /\ NoPolars

NextParse ==
    \/ \E t \in ClockTimes : ZDA(t)
    \/ Ignored0183
    \/ \E fix \in Fixes : GLL(fix)
    \/ \E h \in Headings, v \in Variations, b \in BOOLEAN : HDG(h, b, v, b)
    \/ \E a \in WindAngles, s \in WindSpeeds, u \in {"N", "M"} : MWV(a, s, u)
    \/ \E s \in Speeds : VHW(s)
    \/ \E c \in Courses, s \in Speeds : VTG(c, s)
    \/ Malformed0183
    \/ \E t \in ClockTimes, v \in Variations : PGN127258(t, v)
    \/ \E t \in ClockTimes, src \in Sources, fix \in Fixes : PGN129025(t, src, fix)
    \/ \E t \in ClockTimes, i \in {0, 252}, p \in RudderPositions : PGN127245(t, i, p)
    \/ \E t \in ClockTimes, h \in Headings : PGN127250(t, h)
    \/ \E t \in ClockTimes, s \in Speeds : PGN128259(t, s)
    \/ \E t \in ClockTimes, src \in Sources, c \in Courses, b \in BOOLEAN, s \in Speeds :
          PGN129026(t, src, c, b, s)
    \/ \E t \in ClockTimes, a \in WindAngles, s \in WindSpeeds : PGN130306(t, a, s)
    \/ \E t \in ClockTimes : OtherPGN(t)
    \/ MalformedN2K
    \/ EndOfFile

SpecParse == InitParse /\ [][NextParse]_vars

\* ======================================================== Maneuver Segmenter
\* Min and max apparent wind angles for a leg
minAWA == 25
maxAWA == 165

\* the buckets of the leg under report
LegBuckets == 5

\* The leg analyze_by_minute reports on: LegBuckets buckets of sampleSeconds
ReportLeg == [startts |-> sampleSeconds, endts |-> sampleSeconds * (LegBuckets + 1)]

\* The averaged apparent wind angle of one bucket: none, either side of the
\* bow, and the two thresholds
AwaChoices == {Null, <<-40, 1>>, <<40, 1>>, <<minAWA, 1>>, <<0 - maxAWA, 1>>}

\* The bucket analyze_leg makes of a window with apparent wind (AWA and AWS
\* come from the same sentence) or with a heading only
BucketOf(t, awa) ==
    [f \in bucketFields \cup {"ts"} |->
        IF f = "ts" THEN t
        ELSE IF f = "AWA" THEN awa
        ELSE IF f = "AWS" /\ awa # Null THEN <<1000, 1>>
        ELSE IF f = "HDG" /\ awa = Null THEN <<10, 1>>
        ELSE Null]

\* l['samples'] as analyze_leg leaves it: per retained bucket, in time order,
\* one entry for each of its non-null fields
RECURSIVE LegSamples(_, _)
LegSamples(pick, k) ==
    IF k > LegBuckets THEN <<>>
    ELSE LET bucket == BucketOf(ReportLeg.startts + sampleSeconds * (k - 1), pick[k].awa)
         IN  (IF pick[k].kept THEN [n \in 1..Appends(bucket) |-> bucket] ELSE <<>>)
                \o LegSamples(pick, k + 1)

QAbs(a) == IF a[1] < 0 THEN <<0 - a[1], a[2]>> ELSE a

\* 'Port' if awa < 0 else 'Stbd'
BoardOf(awa) == IF QLt(awa, QInt(0)) THEN "Port" ELSE "Stbd"

\* (variant) the thresholds themselves count as reliable
ReliableInclusive(awa) == QLe(QInt(minAWA), QAbs(awa)) /\ QLe(QAbs(awa), QInt(maxAWA))

\* Use sample if not near a tack or gybe
Reliable(awa) == QLt(QInt(minAWA), QAbs(awa)) /\ QLt(QAbs(awa), QInt(maxAWA))

\* (variant) only a starboard board is ever left
TackedFromStbd(tag, awa) == tag = "Stbd" /\ QLt(awa, QInt(0))

\* (board == 'Stbd' and awa < 0) or (board == 'Port' and awa > 0)
Tacked(tag, awa) ==
    \/ tag = "Stbd" /\ QLt(awa, QInt(0))
    \/ tag = "Port" /\ QLt(QInt(0), awa)

\* (variant) the new board starts where the old one ended
BoardStartAtEnd(samplets, end) == end

\* bstart = samplets
BoardStart(samplets, end) == samplets

\* ---------------------------------------------------- average_sample_fields
reportSeconds == 60

avg_fields == {"AWA", "AWS", "STW", "RUD", "SOG", "TWS", "COG", "HDG", "TWD", "TWA"}
\* the fields average_sample_fields averages as angles
summaryAngles == {"COG", "HDG", "TWD", "TWA"}

\* markBearing >= 90 and markBearing <= 270
SouthSummary(markBearing) == markBearing >= 90 /\ markBearing <= 270

\* angle = s[field] if (markBearing >= 90 and markBearing <= 270)
\*                     or (s[field] <= 180) else s[field] - 360
SummaryAngle(v, markBearing) ==
    IF SouthSummary(markBearing) \/ QLe(v, QInt(180)) THEN v ELSE <<v[1] - 360 * v[2], v[2]>>

QPlus(a, c) == <<a[1] * c[2] + c[1] * a[2], a[2] * c[2]>>

\* d[field] after the first i samples: None until a sample has the field
RECURSIVE SumField(_, _, _, _)
SumField(samples, f, markBearing, i) ==
    IF i = 0 THEN Null
    ELSE LET d == SumField(samples, f, markBearing, i - 1)
             v == samples[i][f]
             x == IF f \in summaryAngles THEN SummaryAngle(v, markBearing) ELSE v
         IN  IF v = Null THEN d
             ELSE IF d = Null THEN x ELSE QPlus(d, x)

\* d[field] /= len(samples)
Divided(d, samples, f) == <<d[1], d[2] * Len(samples)>>

\* d[field] += 0.0 if d[field] > 0 else 360.0
BackTo360(m) == IF QLt(QInt(0), m) THEN m ELSE <<m[1] + 360 * m[2], m[2]>>

SummaryValue(samples, f, markBearing) ==
    LET d == SumField(samples, f, markBearing, Len(samples))
    IN  IF d = Null THEN Null
        ELSE IF f \in summaryAngles THEN BackTo360(Divided(d, samples, f))
        ELSE Divided(d, samples, f)

\* The summary of the samples: <<d>>, or <<>> (None) when no field of any
\* sample has a value
average_sample_fields(samples, markBearing) ==
    IF \E f \in avg_fields : SummaryValue(samples, f, markBearing) # Null
    THEN <<[f \in avg_fields |-> SummaryValue(samples, f, markBearing)]>>
    ELSE <<>>

\* --------------------------------------------------- the rows of the report
\* LegItem(t=..., comment=...)
Comment(t) == [t |-> t, comment |-> TRUE, start |-> 0, end |-> 0, board |-> "", savg |-> <<>>]
\* LegItem(t, None, start, end, ..., board, savg['HDG'], savg['AWA'], ...)
Row(t, start, end, tag, savg) ==
    [t |-> t, comment |-> FALSE, start |-> start, end |-> end, board |-> tag, savg |-> savg]

\* [ s for s in legSamples if s['ts'] >= boardStart and s['ts'] <= boardEnd ]
BoardSamples(legSamples, bd) ==
    LET OnBoard(s) == s["ts"] >= bd[1] /\ s["ts"] <= bd[2]
    IN  SelectSeq(legSamples, OnBoard)

\* [ s for s in boardSamples if s['ts'] > bucketStart and s['ts'] <= bucketEnd ]
BucketSamples(boardSamples, bucketStart, bucketEnd) ==
    LET InBucket(s) == s["ts"] > bucketStart /\ s["ts"] <= bucketEnd
    IN  SelectSeq(boardSamples, InBucket)

\* while bucketStart < boardEnd: the reporting windows of a board, as
\* <<bucketStart, bucketEnd>>
RECURSIVE MinuteWindows(_, _)
MinuteWindows(bucketStart, boardEnd) ==
    IF bucketStart < boardEnd
    THEN <<<<bucketStart, Min(bucketStart + reportSeconds, boardEnd)>>>>
            \o MinuteWindows(Min(bucketStart + reportSeconds, boardEnd), boardEnd)
    ELSE <<>>

\* Per-minute: one row for each window whose samples have a summary
RECURSIVE MinuteRows(_, _, _, _, _)
MinuteRows(boardSamples, windows, tag, markBearing, i) ==
    IF i > Len(windows) THEN <<>>
    ELSE LET savg == average_sample_fields(
                        BucketSamples(boardSamples, windows[i][1], windows[i][2]), markBearing)
         IN  (IF savg # <<>>
              THEN <<Row("Minute", windows[i][1], windows[i][2], tag, savg[1])>>
              ELSE <<>>)
                \o MinuteRows(boardSamples, windows, tag, markBearing, i + 1)

\* Per-board: the summary of the board's samples
BoardRows(boardSamples, bd, markBearing, last) ==
    IF Len(boardSamples) = 0 THEN <<Comment("Board")>>
    ELSE (IF average_sample_fields(boardSamples, markBearing) # <<>>
          THEN <<Row("Board", bd[1], bd[2], bd[3],
                     average_sample_fields(boardSamples, markBearing)[1])>>
          ELSE <<>>)
            \o (IF last THEN <<>> ELSE <<Comment("Blank")>>)

\* for b in range(len(l['boards'])): the rows of one board
ReportBoard ==
    /\ pc = "boards"
    /\ boardIndex < Len(boards)
    /\ LET bd == boards[boardIndex + 1]
           boardSamples == BoardSamples(legs[1].samples, bd)
       IN  items' = items \o <<Comment("Board")>>
                       \o MinuteRows(boardSamples, MinuteWindows(bd[1], bd[2]), bd[3],
                                     course[1], 1)
                       \o BoardRows(boardSamples, bd, course[1],
                                    boardIndex + 1 = Len(boards))
    /\ boardIndex' = boardIndex + 1
    /\ UNCHANGED <<r, legs, course, pc, err, parseVars, board, bstart, bend, boards, sampleIndex,
                   polarVars, firstRun, mainVars>>

\* Per-leg: the summary of the leg's samples, then a blank row
ReportLegSummary ==
    /\ pc = "boards"
    /\ boardIndex = Len(boards)
    /\ IF Len(legs[1].samples) = 0
       THEN /\ items' = items \o <<Comment("Leg"), Comment("Blank")>>
            /\ pc' = "reported"
            /\ err' = err
       ELSE IF average_sample_fields(legs[1].samples, course[1]) = <<>>
       THEN /\ err' = "TypeError"
            /\ pc' = "failed"
            /\ items' = items
       ELSE /\ items' = items \o <<Row("Leg", legs[1].startts, legs[1].endts, "",
                                      average_sample_fields(legs[1].samples, course[1])[1]),
                                  Comment("Blank")>>
            /\ pc' = "reported"
            /\ err' = err
    /\ UNCHANGED <<r, legs, course, parseVars, board, bstart, bend, boards, sampleIndex,
                   boardIndex, polarVars, firstRun, mainVars>>

\* legSamples[0] gives the first board; the scan starts at i = 1
FirstBoard ==
    /\ pc = "report"
    /\ IF Len(legs[1].samples) = 0
       THEN /\ err' = "IndexError"
            /\ pc' = "failed"
            /\ UNCHANGED reportVars
       ELSE IF legs[1].samples[1]["AWA"] = Null
       THEN /\ err' = "TypeError"
            /\ pc' = "failed"
            /\ UNCHANGED reportVars
       ELSE /\ board' = BoardOf(legs[1].samples[1]["AWA"])
            /\ boards' = <<>>
            /\ bstart' = legs[1].startts
            /\ bend' = legs[1].startts
            /\ sampleIndex' = 1
            /\ boardIndex' = 0
            /\ items' = <<Comment("Regatta"), Comment("Leg"), Comment("Blank"), Comment("Leg")>>
            /\ pc' = "scan"
            /\ err' = err
    /\ UNCHANGED <<r, legs, course, parseVars, polarVars, firstRun, mainVars>>

\* for i in range(1, len(legSamples)): one sample
ScanSample ==
    /\ pc = "scan"
    /\ sampleIndex < Len(legs[1].samples)
    /\ LET s == legs[1].samples[sampleIndex + 1]
           awa == s["AWA"]
       IN  IF awa = Null
           THEN /\ err' = "TypeError"
                /\ pc' = "failed"
                /\ UNCHANGED reportVars
           ELSE /\ sampleIndex' = sampleIndex + 1
                /\ UNCHANGED <<pc, err, boardIndex, items>>
                /\ IF ~Reliable(awa) THEN UNCHANGED <<board, bstart, bend, boards>>
                   ELSE /\ bend' = s["ts"]
                        /\ IF Tacked(board, awa)
                           THEN /\ boards' = Append(boards, <<bstart, bend, board>>)
                                /\ board' = BoardOf(awa)
                                /\ bstart' = BoardStart(s["ts"], bend)
                           ELSE UNCHANGED <<board, bstart, boards>>
    /\ UNCHANGED <<r, legs, course, parseVars, polarVars, firstRun, mainVars>>

\* Last board for this leg
LastBoard ==
    /\ pc = "scan"
    /\ sampleIndex >= Len(legs[1].samples)
    /\ boards' = Append(boards, <<bstart, bend, board>>)
    /\ pc' = "boards"
    /\ UNCHANGED <<r, legs, course, err, parseVars, board, bstart, bend, sampleIndex, boardIndex,
                   items, polarVars, firstRun, mainVars>>

\* analyze_by_minute on one analysed leg
InitReport ==
    /\ r = [f \in raceRawFields |-> <<>>]
    /\ \E pick \in [1..LegBuckets -> [kept : BOOLEAN, awa : AwaChoices]] :
          legs = <<[legInit(ReportLeg) EXCEPT !.samples = LegSamples(pick, 1)]>>
    /\ course \in {<<b>> : b \in Bearings}
    /\ pc = "report"
    /\ err = "none"
    /\ NoFile
    /\ NoBoards
    /\ NoPolars

NextReport ==
    \/ FirstBoard
    \/ ScanSample
    \/ LastBoard
    \/ ReportBoard
    \/ ReportLegSummary

SpecReport == InitReport /\ [][NextReport]_vars

\* ------------------------------------------- a leg longer than one minute
MinuteBuckets == 8
MinuteLeg == [startts |-> sampleSeconds, endts |-> sampleSeconds * (MinuteBuckets + 1)]
\* the windows of the leg that may hold readings: the first two, the last two
ReadingSlots == {1, 2, MinuteBuckets - 1, MinuteBuckets}
SummaryBearings == {0, 90, 180, 270}

\* The readings of one window: none, or apparent wind on either side, alone
\* or with a heading and a boat speed
NoReadings == [awa |-> Null, hdg |-> Null]
WindowChoices ==
    {NoReadings} \cup [awa : {<<40, 1>>, <<-40, 1>>}, hdg : {Null, <<350, 1>>, <<10, 1>>}]

\* The bucket analyze_leg makes of such a window: without COG and SOG no true
\* wind is derived
SummaryBucket(t, w) ==
    [f \in bucketFields \cup {"ts"} |->
        IF f = "ts" THEN t
        ELSE IF f = "AWA" THEN w.awa
        ELSE IF f = "AWS" THEN <<1000, 1>>
        ELSE IF f = "HDG" THEN w.hdg
        ELSE IF f = "STW" /\ w.hdg # Null THEN <<600, 1>>
        ELSE Null]

\* l['samples'] as analyze_leg leaves it: per window with readings, in time
\* order, one entry for each non-null field of its bucket
RECURSIVE MinuteSamples(_, _)
MinuteSamples(pick, k) ==
    IF k > MinuteBuckets THEN <<>>
    ELSE LET bucket == SummaryBucket(MinuteLeg.startts + sampleSeconds * (k - 1), pick[k])
         IN  (IF k \in ReadingSlots /\ pick[k] # NoReadings
              THEN [n \in 1..Appends(bucket) |-> bucket] ELSE <<>>)
                \o MinuteSamples(pick, k + 1)

InitMinute ==
    /\ r = [f \in raceRawFields |-> <<>>]
    /\ \E pick \in [ReadingSlots -> WindowChoices] :
          legs = <<[legInit(MinuteLeg) EXCEPT !.samples = MinuteSamples(pick, 1)]>>
    /\ course \in {<<b>> : b \in SummaryBearings}
    /\ pc = "report"
    /\ err = "none"
    /\ NoFile
    /\ NoBoards
    /\ NoPolars

SpecMinute == InitMinute /\ [][NextReport]_vars

\* ============================================================ Polar Builder
\* polarData[p]['max'], in hundredths of a knot
polarMax == <<1100, 1300, 1500, 1800, 2200, 2800>>

\* the buckets of the leg whose samples are gathered
GatherBuckets == 3

GatherLeg == [startts |-> 0, endts |-> sampleSeconds * GatherBuckets]

\* The averaged true wind speed of a bucket: none, inside the first range, on
\* the bound between two ranges, on the last bound and beyond it
TwsChoices == {Null, <<500, 1>>, <<1100, 1>>, <<2800, 1>>, <<3000, 1>>}

\* The bucket analyze_leg makes of a window: with a true wind it has all of
\* HDG, COG, SOG, AWA, AWS, without one it has a boat speed only
WindBucket(t, tws) ==
    [f \in bucketFields \cup {"ts"} |->
        IF f = "ts" THEN t
        ELSE IF f = "STW" THEN <<600, 1>>
        ELSE IF tws = Null \/ f = "RUD" THEN Null
        ELSE IF f = "TWS" THEN tws
        ELSE IF f \in {"TWA", "TWD"} THEN <<40, 1>>
        ELSE IF f \in {"AWS", "SOG"} THEN <<500, 1>>
        ELSE <<0, 1>>]

RECURSIVE GatherSamples(_, _)
GatherSamples(pick, k) ==
    IF k > GatherBuckets THEN <<>>
    ELSE LET bucket == WindBucket(GatherLeg.startts + sampleSeconds * (k - 1), pick[k].tws)
         IN  (IF pick[k].kept THEN [n \in 1..Appends(bucket) |-> bucket] ELSE <<>>)
                \o GatherSamples(pick, k + 1)

\* for p, polar in enumerate(polarData): if polar['max'] > tws: ... break
\* (0: no range, the sample is dropped)
RECURSIVE RangeFrom(_, _)
RangeFrom(tws, p) ==
    IF p > Len(polarMax) THEN 0
    ELSE IF QLt(tws, QInt(polarMax[p])) THEN p
    ELSE RangeFrom(tws, p + 1)
RangeOf(tws) == RangeFrom(tws, 1)

\* datum = (theta, stw, ..., leg, ts, twd, hdg, twa); theta is radians(twa)
Datum(s, leg) == [twa |-> s["TWA"], stw |-> s["STW"], leg |-> leg, ts |-> s["ts"]]

\* for s in l['samples']: add this sample to the correct polar wind range
RECURSIVE GatherLegSamples(_, _, _, _)
GatherLegSamples(data, samples, leg, n) ==
    IF n > Len(samples) THEN [data |-> data, err |-> "none"]
    ELSE IF samples[n]["TWS"] = Null \/ samples[n]["TWA"] = Null
    THEN [data |-> data, err |-> "TypeError"]
    ELSE LET p == RangeOf(samples[n]["TWS"])
         IN  GatherLegSamples(IF p = 0 THEN data
                              ELSE [data EXCEPT ![p] = Append(@, Datum(samples[n], leg))],
                              samples, leg, n + 1)

\* for r in regatta['races']: racecount += 1 reads a local that was never
\* assigned, so the first race ends the function
GatherRaces(data) ==
    IF races = 0 THEN [data |-> data, err |-> "none"]
    ELSE [data |-> data, err |-> "UnboundLocalError"]

gather_polar_data ==
    /\ pc = "polars"
    /\ polarData' = GatherRaces(polarData).data
    /\ err' = GatherRaces(polarData).err
    /\ pc' = IF GatherRaces(polarData).err = "none" THEN "gathered" ELSE "failed"
    /\ UNCHANGED <<r, legs, course, parseVars, reportVars, races, points, flagged, curves, firstRun, mainVars>>

\* main with -polars: the regatta's races are parsed and analysed
InitGather ==
    /\ r = [f \in raceRawFields |-> <<>>]
    /\ races \in {0, 1}
    /\ IF races = 0 THEN legs = <<>>
       ELSE \E pick \in [1..GatherBuckets -> [kept : BOOLEAN, tws : TwsChoices]] :
               legs = <<[legInit(GatherLeg) EXCEPT !.samples = GatherSamples(pick, 1)]>>
    /\ course = <<>>
    /\ pc = "polars"
    /\ err = "none"
    /\ NoFile
    /\ NoBoards
    /\ polarData = [p \in 1..Len(polarMax) |-> <<>>]
    /\ points = <<>>
    /\ flagged = {}
    /\ curves = [stbd |-> <<>>, port |-> <<>>]
    /\ firstRun = <<>>
    /\ NoRun

NextGather == gather_polar_data

SpecGather == InitGather /\ [][NextGather]_vars

\* -------------------------------------------------------------- plot_polars
\* Min and max true wind angles for polars
minTWA == 25
maxTWA == 165
\* lineSpan = 7.5
lineSpan == <<15, 2>>
\* scipy.signal.savgol_filter(speed, 7, 3): the window length
savgolWindow == 7

\* the observations of the range being plotted
MaxObs == 3

RECURSIVE GCD(_, _)
GCD(a, b) == IF b = 0 THEN a ELSE GCD(b, a % b)
QNorm(a) ==
    LET n == IF a[2] < 0 THEN 0 - a[1] ELSE a[1]
        d == IF a[2] < 0 THEN 0 - a[2] ELSE a[2]
        g == GCD(IF n < 0 THEN 0 - n ELSE n, d)
    IN  <<n \div g, d \div g>>
QAdd(a, b) == QNorm(<<a[1] * b[2] + b[1] * a[2], a[2] * b[2]>>)
QSub(a, b) == QNorm(<<a[1] * b[2] - b[1] * a[2], a[2] * b[2]>>)
QMul(a, b) == QNorm(<<a[1] * b[1], a[2] * b[2]>>)
QDiv(a, b) == QNorm(<<a[1] * b[2], a[2] * b[1]>>)

\* pd['data'].sort(key=lambda x: x[0]): stable, by theta
RECURSIVE InsertByTheta(_, _)
InsertByTheta(sorted, d) ==
    IF sorted = <<>> THEN <<d>>
    ELSE IF QLt(d.twa, sorted[Len(sorted)].twa)
    THEN Append(InsertByTheta(SubSeq(sorted, 1, Len(sorted) - 1), d), sorted[Len(sorted)])
    ELSE Append(sorted, d)
RECURSIVE SortByTheta(_, _)
SortByTheta(data, n) ==
    IF n = 0 THEN <<>> ELSE InsertByTheta(SortByTheta(data, n - 1), data[n])

\* the boat speeds of a bucket in ascending order
RECURSIVE InsertQ(_, _)
InsertQ(sorted, v) ==
    IF sorted = <<>> THEN <<v>>
    ELSE IF QLt(v, sorted[Len(sorted)])
    THEN Append(InsertQ(SubSeq(sorted, 1, Len(sorted) - 1), v), sorted[Len(sorted)])
    ELSE Append(sorted, v)
RECURSIVE SortQ(_, _)
SortQ(vs, n) == IF n = 0 THEN <<>> ELSE InsertQ(SortQ(vs, n - 1), vs[n])

RECURSIVE SumQ(_, _)
SumQ(vs, n) == IF n = 0 THEN <<0, 1>> ELSE QAdd(SumQ(vs, n - 1), vs[n])
\* mean(bucketSTW)
Mean(vs) == QDiv(SumQ(vs, Len(vs)), QInt(Len(vs)))

\* np.percentile(np.array(bucketSTW), 90): linear interpolation between the
\* two order statistics around position 0.9 * (n - 1)
Percentile90(vs) ==
    LET a    == SortQ(vs, Len(vs))
        pos  == 9 * (Len(vs) - 1)
        lo   == pos \div 10
        frac == <<pos % 10, 10>>
    IN  IF lo + 1 >= Len(vs) THEN a[lo + 1]
        ELSE QAdd(a[lo + 1], QMul(frac, QSub(a[lo + 2], a[lo + 1])))

\* points.append((btheta, bmean, p90, degrees(btheta))): the bearing is kept
\* in degrees; made records whether the point is a sector's or was inserted
SectorPoint(bucketSTW, bucketTheta, bucketCount) ==
    [b |-> QDiv(bucketTheta, QInt(bucketCount)), mean |-> Mean(bucketSTW),
     p90 |-> Percentile90(bucketSTW), made |-> "sector"]

\* while twa > next_bucket: next_bucket += lineSpan
RECURSIVE NextBucket(_, _)
NextBucket(twa, next) == IF QLt(next, twa) THEN NextBucket(twa, QAdd(next, lineSpan)) ELSE next

\* Compute a simple per-bucket mean: the loop over the sorted data, then the
\* last bucket
RECURSIVE Sectors(_, _, _, _, _, _, _)
Sectors(data, n, bucketSTW, bucketTheta, bucketCount, next, pts) ==
    IF \E k \in 1..Len(bucketSTW) : bucketSTW[k] = Null
    THEN [points |-> pts, err |-> "TypeError"]
    ELSE IF n > Len(data)
    THEN [points |-> IF Len(bucketSTW) # 0
                     THEN Append(pts, SectorPoint(bucketSTW, bucketTheta, bucketCount))
                     ELSE pts,
          err |-> "none"]
    ELSE IF QLt(next, data[n].twa)
    THEN Sectors(data, n + 1, <<data[n].stw>>, data[n].twa, 1, NextBucket(data[n].twa, next),
                 IF Len(bucketSTW) # 0
                 THEN Append(pts, SectorPoint(bucketSTW, bucketTheta, bucketCount))
                 ELSE pts)
    ELSE Sectors(data, n + 1, Append(bucketSTW, data[n].stw), QAdd(bucketTheta, data[n].twa),
                 bucketCount + 1, next, pts)

\* (b >= minTWA and b <= maxTWA) or (b >= 360-maxTWA and b <= 360-minTWA)
Sailable(b) ==
    \/ QLe(QInt(minTWA), b) /\ QLe(b, QInt(maxTWA))
    \/ QLe(QInt(360 - maxTWA), b) /\ QLe(b, QInt(360 - minTWA))

\* (variant) a new point is also inserted on the next one
GapOrEqual(b0, b1) == QLe(QAdd(b0, lineSpan), b1) /\ Sailable(b0) /\ Sailable(b1)

\* the test of line 1171
Gap(b0, b1) == QLt(QAdd(b0, lineSpan), b1) /\ Sailable(b0) /\ Sailable(b1)

Between(p0, p1) ==
    LET bprime == QAdd(p0.b, lineSpan)
        run    == QSub(bprime, p0.b)
        span   == QSub(p1.b, p0.b)
    IN  [b |-> bprime,
         mean |-> QAdd(p0.mean, QMul(QDiv(QSub(p1.mean, p0.mean), span), run)),
         p90 |-> QAdd(p0.p90, QMul(QDiv(QSub(p1.p90, p0.p90), span), run)),
         made |-> "insert"]

\* make the polar lines rounder by interpolating missing points
RECURSIVE Interpolated(_, _)
Interpolated(pts, i) ==
    IF ~(i < Len(pts) - 1) THEN pts
    ELSE IF Gap(pts[i + 1].b, pts[i + 2].b)
    THEN Interpolated(SubSeq(pts, 1, i + 1) \o <<Between(pts[i + 1], pts[i + 2])>>
                         \o SubSeq(pts, i + 2, Len(pts)), i + 1)
    ELSE Interpolated(pts, i + 1)

\* for x in range(from, len(points)): if test(points[x]): break
\* the value x is left with (the last index when no point passes)
RECURSIVE Scan(_, _, _)
Scan(from, bound, strict) ==
    IF from >= Len(points) - 1 THEN from
    ELSE IF (IF strict THEN QLt(bound, points[from + 1].b) ELSE QLe(bound, points[from + 1].b))
    THEN from
    ELSE Scan(from + 1, bound, strict)

\* points[a:b]
Slice(a, b) == SubSeq(points, a + 1, b)

SortData ==
    /\ pc = "plot"
    /\ polarData' = [polarData EXCEPT ![1] = SortByTheta(@, Len(@))]
    /\ pc' = "sorted"
    /\ UNCHANGED <<r, legs, course, err, parseVars, reportVars, races, points, flagged, curves, firstRun, mainVars>>

SectorBucketing ==
    /\ pc = "sorted"
    /\ LET run == Sectors(polarData[1], 1, <<>>, <<0, 1>>, 0, QAdd(QInt(minTWA), lineSpan), <<>>)
       IN  /\ points' = run.points
           /\ err' = run.err
           /\ pc' = IF run.err = "none" THEN "sectors" ELSE "failed"
    /\ UNCHANGED <<r, legs, course, parseVars, reportVars, races, polarData, flagged, curves, firstRun, mainVars>>

GapInterpolation ==
    /\ pc = "sectors"
    /\ points' = Interpolated(points, 0)
    /\ pc' = "interpolated"
    /\ UNCHANGED <<r, legs, course, err, parseVars, reportVars, races, polarData, flagged, curves, firstRun, mainVars>>

\* Look for errors in data order: the pairs printed as "## Backwards"
OrderCheck ==
    /\ pc = "interpolated"
    /\ flagged' = {i \in 0..(Len(points) - 2) : QLe(points[i + 2].b, points[i + 1].b)}
    /\ pc' = "checked"
    /\ UNCHANGED <<r, legs, course, err, parseVars, reportVars, races, polarData, points, curves, firstRun, mainVars>>

\* The four boundary scans and the two curves; the smoothing filter rejects a
\* run shorter than its window, and pd['p90'] reads the curves of both sides
Boundaries ==
    /\ pc = "checked"
    /\ IF ~(Len(points) > 1)
       THEN /\ pc' = "plotted"
            /\ UNCHANGED <<err, curves, firstRun, mainVars>>
       ELSE LET scloseHauled == Scan(0, QInt(minTWA), FALSE)
                sgybing      == Scan(scloseHauled, QInt(maxTWA), TRUE)
                pgybing      == Scan(sgybing, QInt(360 - maxTWA), TRUE)
                pcloseHauled == Scan(pgybing, QInt(360 - minTWA), TRUE)
                stbd == IF scloseHauled # sgybing THEN Slice(scloseHauled, sgybing) ELSE <<>>
                port == IF pcloseHauled # pgybing THEN Slice(pgybing, pcloseHauled) ELSE <<>>
            IN  IF stbd # <<>> /\ Len(stbd) < savgolWindow
                THEN /\ err' = "ValueError"
                     /\ pc' = "failed"
                     /\ UNCHANGED curves
                ELSE IF port # <<>> /\ Len(port) < savgolWindow
                THEN /\ err' = "ValueError"
                     /\ pc' = "failed"
                     /\ curves' = [curves EXCEPT !.stbd = stbd]
                ELSE /\ curves' = [stbd |-> stbd, port |-> port]
                     /\ err' = IF stbd = <<>> \/ port = <<>> THEN "UnboundLocalError" ELSE "none"
                     /\ pc' = IF stbd = <<>> \/ port = <<>> THEN "failed" ELSE "plotted"
    /\ UNCHANGED <<r, legs, course, parseVars, reportVars, races, polarData, points, flagged, firstRun, mainVars>>

\* the true wind angles and boat speeds of the observations of one range
ObsTwa == {<<10, 1>>, <<30, 1>>, <<90, 1>>, <<200, 1>>, <<260, 1>>, <<350, 1>>}
ObsStw == {Null, <<500, 1>>, <<700, 1>>}
Observations == {[twa |-> a, stw |-> v, leg |-> 0, ts |-> 0] : a \in ObsTwa, v \in ObsStw}

\* plot_polars on the first wind range
InitPlot ==
    /\ r = [f \in raceRawFields |-> <<>>]
    /\ legs = <<>>
    /\ course = <<>>
    /\ pc = "plot"
    /\ err = "none"
    /\ NoFile
    /\ NoBoards
    /\ races = 1
    /\ \E n \in 0..MaxObs : \E data \in [1..n -> Observations] :
          polarData = [p \in 1..Len(polarMax) |-> IF p = 1 THEN data ELSE <<>>]
    /\ points = <<>>
    /\ flagged = {}
    /\ curves = [stbd |-> <<>>, port |-> <<>>]
    /\ firstRun = <<>>
    /\ NoRun

NextPlot ==
    \/ SortData
    \/ SectorBucketing
    \/ GapInterpolation
    \/ OrderCheck
    \/ Boundaries

SpecPlot == InitPlot /\ [][NextPlot]_vars

\* ================================================== the pipeline, run again
\* parse_race on a race that was parsed before: the parsers empty r['LATLON']
\* and r['variation'] only, every other series is appended to, so the file's
\* readings follow themselves
ParseAgain ==
    /\ pc = "analyzed"
    /\ firstRun = <<>>
    /\ firstRun' = <<legs, course>>
    /\ r' = [f \in raceRawFields |-> IF f = "LATLON" THEN r[f] ELSE r[f] \o r[f]]
    /\ course' = <<>>
    /\ pc' = "load"
    /\ UNCHANGED <<legs, err, parseVars, reportVars, polarVars, mainVars>>

\* the leg windows of the configuration the first pass ran with
ConfigOf(ls) == [k \in 1..Len(ls) |-> [startts |-> ls[k].startts, endts |-> ls[k].endts]]

\* the first pass reads the file; the second runs on the same file ...
ReadHDG(t, v) == firstRun = <<>> /\ SupplyHDG(t, v)
ReadSTW(t, v) == firstRun = <<>> /\ SupplySTW(t, v)
\* ... with the same legs ...
IndexRace(cfg) ==
    /\ IF firstRun = <<>> THEN TRUE ELSE cfg = ConfigOf(firstRun[1])
    /\ analyze_race(cfg)
\* ... and the same course
BucketLeg(leg, markBearing) ==
    /\ IF firstRun = <<>> THEN TRUE
       ELSE leg <= Len(firstRun[2]) /\ markBearing = firstRun[2][leg]
    /\ analyze_leg(leg, markBearing)

NextRerun ==
    \/ \E t \in Times, v \in HdgValues : ReadHDG(t, v)
    \/ \E t \in Times, v \in StwValues : ReadSTW(t, v)
    \/ \E cfg \in OrderedLegConfigs : IndexRace(cfg)
    \/ \E leg \in 1..2, b \in Bearings : BucketLeg(leg, b)
    \/ ParseAgain

SpecRerun == Init /\ [][NextRerun]_vars

\* ================================================================= __main__
MaxRegattas == 2
MaxRaces == 2
MaxRuns == 2

\* r['data'] of a race: a YDVR capture, a 0183 recording, a file of neither kind
DataFiles == {[base |-> "x", ext |-> ".log"],
              [base |-> "z", ext |-> ".nmea"],
              [base |-> "t", ext |-> ".txt"]}
RawFiles == {d \in DataFiles : d.ext # ".txt"}
RaceLists == UNION {[1..n -> DataFiles] : n \in 1..MaxRaces}
\* the settings of a "regatta" element, after parse_regatta's defaults
Settings == {[rudderCorrection |-> 0, latlonSource |-> NoSource, cogsogSource |-> NoSource],
             [rudderCorrection |-> 3, latlonSource |-> 1, cogsogSource |-> 1]}
TimeZones == {Null, <<-7>>}

\* a regatta description file: one "regatta" element and its "race" elements
Descriptions(name) ==
    {[regatta |-> name, rudderCorrection |-> s.rudderCorrection,
      latlonSource |-> s.latlonSource, cogsogSource |-> s.cogsogSource,
      tz |-> tz, races |-> rs] : s \in Settings, tz \in TimeZones, rs \in RaceLists}
ArgLists ==
    {<<d>> : d \in Descriptions(1)}
    \cup {<<d, e>> : d \in Descriptions(1), e \in Descriptions(2)}
    \cup {<<e, d>> : d \in Descriptions(1), e \in Descriptions(2)}

JsonFiles == (1..MaxRegattas) \X (1..MaxRaces)

\* for arg in args.regatta: parse_regatta(arg)
\* The "regatta" element is stored under its name and sets the process-wide
\* rudderCorrection, LATLONSOURCE and COGSOGSOURCE; the "race" elements are
\* added to the regatta.
parse_regatta ==
    /\ pc = "args"
    /\ argi <= Len(args)
    /\ regattalist' = Append(regattalist, args[argi].regatta)
    /\ regattas' = [regattas EXCEPT ![args[argi].regatta] = args[argi]]
    /\ rudderCorrection' = args[argi].rudderCorrection
    /\ LATLONSOURCE' = args[argi].latlonSource
    /\ COGSOGSOURCE' = args[argi].cogsogSource
    /\ argi' = argi + 1
    /\ UNCHANGED <<r, legs, course, pc, err, enc, race, ts, chrono, variation, rvariation,
                   sampleCount, recordCount, nread, positions, reportVars, polarVars, firstRun,
                   args, at, tzoffset, files, jsons, invoked, processed, started>>

RECURSIVE InsertName(_, _)
InsertName(n, s) ==
    IF s = <<>> THEN <<n>>
    ELSE IF n < Head(s) THEN <<n>> \o s
    ELSE <<Head(s)>> \o InsertName(n, Tail(s))
RECURSIVE SortNames(_)
SortNames(s) == IF s = <<>> THEN <<>> ELSE InsertName(Head(s), SortNames(Tail(s)))

\* regattalist.sort(), once every description is parsed
SortRegattas ==
    /\ pc = "args"
    /\ argi > Len(args)
    /\ regattalist' = SortNames(regattalist)
    /\ at' = <<1, 1>>
    /\ pc' = "regatta"
    /\ UNCHANGED <<r, legs, course, err, parseVars, reportVars, polarVars, firstRun,
                   args, argi, regattas, tzoffset, files, jsons, invoked, processed, started>>

\* for rn in regattalist: reg = regattas[rn];
\* tzoffset = datetime.timedelta(hours=reg['tz'])
NextRegatta ==
    /\ pc = "regatta"
    /\ IF at[1] > Len(regattalist)
       THEN /\ pc' = "done"
            /\ UNCHANGED <<err, tzoffset, at>>
       ELSE IF regattas[regattalist[at[1]]].tz = Null
       THEN /\ pc' = "failed"
            /\ err' = "KeyError"
            /\ UNCHANGED <<tzoffset, at>>
       ELSE /\ tzoffset' = regattas[regattalist[at[1]]].tz
            /\ IF Len(regattas[regattalist[at[1]]].races) = 0
               THEN pc' = "regatta" /\ at' = <<at[1] + 1, 1>>
               ELSE pc' = "race" /\ at' = at
            /\ UNCHANGED err
    /\ UNCHANGED <<r, legs, course, parseVars, reportVars, polarVars, firstRun,
                   args, argi, regattalist, regattas, files, jsons, invoked, processed, started>>

\* jsonfile = regatta['path'] + regatta["basefn"] + '_' + r['race'] + ".json"
jsonfile(reg, k) == <<reg.regatta, k>>

\* what a call of a parser leaves: the exception raised, the structured
\* files, the conversions run, what the race's series were filled from
Opened(from) == [err |-> "none", jsons |-> jsons, invoked |-> invoked, data |-> from]

\* with open(regatta['path'] + r['data'], 'r') as f: ...
parse_race_0183(d) ==
    IF d \in files THEN Opened("records")
    ELSE [Opened("none") EXCEPT !.err = "FileNotFoundError"]

\* (mutant) the capture is converted on every call
ConvertAlways(jf) == TRUE
\* if not os.path.isfile(jsonfile)
Convert(jf) == jsons[jf] = "absent"

\* what grep leaves in the structured file: the records of the interesting
\* PGNs (exit code 0), or nothing (exit code 1, which is only printed)
Converted(retcode) == IF retcode = 0 THEN "records" ELSE "empty"

\* parse_race_n2k: the conversion when there is no structured file, then the
\* read of the structured file. open(logfile) raises when the capture is
\* missing, before the structured file is created; Popen raises when the
\* analyzer cannot be started, after open(jsonfile, 'wb') created it empty.
parse_race_n2k(reg, k, analyzer, retcode) ==
    LET jf == jsonfile(reg, k)
        d  == reg.races[k]
    IN  IF Convert(jf)
        THEN IF d \notin files
             THEN [Opened("none") EXCEPT !.err = "FileNotFoundError"]
             ELSE IF ~analyzer
             THEN [Opened("none") EXCEPT !.err = "FileNotFoundError",
                                         !.jsons = [jsons EXCEPT ![jf] = "empty"]]
             ELSE [Opened(Converted(retcode)) EXCEPT
                      !.jsons = [jsons EXCEPT ![jf] = Converted(retcode)],
                      !.invoked = Append(invoked, [data |-> d, jsonfile |-> jf])]
        ELSE Opened(jsons[jf])

\* parse_race: the parser is chosen by the extension of r['data']; a file of
\* another kind is only reported
parse_race(reg, k, analyzer, retcode) ==
    IF reg.races[k].ext = ".nmea" THEN parse_race_0183(reg.races[k])
    ELSE IF reg.races[k].ext = ".log" THEN parse_race_n2k(reg, k, analyzer, retcode)
    ELSE Opened("none")

\* for race in reg["races"]: parse_race(reg, race); analyze_race(reg, race);
\* for leg in ...: analyze_leg(reg, race, leg)
\* analyze_race and analyze_leg run to their end on whatever series the parser
\* left (no series holds true wind); the race is then recorded with the
\* process-wide settings its records were read under.
ProcessRace(analyzer, retcode) ==
    LET reg == regattas[regattalist[at[1]]]
        res == parse_race(reg, at[2], analyzer, retcode)
    IN  /\ pc = "race"
        /\ jsons' = res.jsons
        /\ invoked' = res.invoked
        /\ err' = res.err
        /\ IF res.err # "none"
           THEN pc' = "failed" /\ UNCHANGED <<processed, at>>
           ELSE /\ processed' = Append(processed,
                                  [run |-> started, regatta |-> reg.regatta,
                                   race |-> at[2], data |-> res.data,
                                   rudderCorrection |-> rudderCorrection,
                                   LATLONSOURCE |-> LATLONSOURCE,
                                   COGSOGSOURCE |-> COGSOGSOURCE])
                /\ IF at[2] = Len(reg.races)
                   THEN pc' = "regatta" /\ at' = <<at[1] + 1, 1>>
                   ELSE pc' = "race" /\ at' = <<at[1], at[2] + 1>>
        /\ UNCHANGED <<r, legs, course, parseVars, reportVars, polarVars, firstRun,
                       args, argi, regattalist, regattas, tzoffset, files, started>>

\* the module as a new process loads it: regattalist = [], regattas = {},
\* rudderCorrection = 0.0, tzoffset = None, LATLONSOURCE = COGSOGSOURCE = None
Loaded ==
    /\ argi = 1
    /\ regattalist = <<>>
    /\ regattas = [n \in 1..MaxRegattas |-> Null]
    /\ at = <<1, 1>>
    /\ tzoffset = Null
    /\ pc = "args"
    /\ err = "none"
    /\ rudderCorrection = 0
    /\ LATLONSOURCE = NoSource
    /\ COGSOGSOURCE = NoSource

\* the program is started again on the same descriptions, with the files the
\* earlier run left
RunAgain ==
    /\ pc \in {"done", "failed"}
    /\ started < MaxRuns
    /\ started' = started + 1
    /\ argi' = 1
    /\ regattalist' = <<>>
    /\ regattas' = [n \in 1..MaxRegattas |-> Null]
    /\ at' = <<1, 1>>
    /\ tzoffset' = Null
    /\ pc' = "args"
    /\ err' = "none"
    /\ rudderCorrection' = 0
    /\ LATLONSOURCE' = NoSource
    /\ COGSOGSOURCE' = NoSource
    /\ UNCHANGED <<r, legs, course, enc, race, ts, chrono, variation, rvariation,
                   sampleCount, recordCount, nread, positions, reportVars, polarVars, firstRun,
                   args, files, jsons, invoked, processed>>

InitMain ==
    /\ r = [f \in raceRawFields |-> <<>>]
    /\ legs = <<>>
    /\ course = <<>>
    /\ NoFile
    /\ NoBoards
    /\ races = 1
    /\ polarData = [p \in 1..Len(polarMax) |-> <<>>]
    /\ points = <<>>
    /\ flagged = {}
    /\ curves = [stbd |-> <<>>, port |-> <<>>]
    /\ firstRun = <<>>
    /\ args \in ArgLists
    /\ files \in SUBSET RawFiles
    /\ jsons = [jf \in JsonFiles |-> "absent"]
    /\ invoked = <<>>
    /\ processed = <<>>
    /\ started = 1
    /\ Loaded

NextMain ==
    \/ parse_regatta
    \/ SortRegattas
    \/ NextRegatta
    \/ \E analyzer \in BOOLEAN, retcode \in {0, 1} : ProcessRace(analyzer, retcode)
    \/ RunAgain

SpecMain == InitMain /\ [][NextMain]_vars

\* =================================================================== claims
\* The 0-based index of the first reading of s at or after bound, Len(s)
\* when there is none.
FirstAtLeast(s, bound) ==
    IF \E i \in 1..Len(s) : s[i][1] >= bound
    THEN (CHOOSE i \in 1..Len(s) :
            /\ s[i][1] >= bound
            /\ \A j \in 1..(i - 1) : s[j][1] < bound) - 1
    ELSE Len(s)

NonDecreasing(s) == \A i \in 1..(Len(s) - 1) : s[i][1] <= s[i + 1][1]

\* C1: analyze_race, on series with non-decreasing timestamps and legs in
\* chronological order: for every leg and every indexed field, sindex is the
\* smallest index whose timestamp is >= the leg start and eindex the smallest
\* index whose timestamp is >= the leg end (the series length when none is).
C1_FirstIndex ==
    pc # "load" =>
        \A k \in 1..Len(legs), f \in legFields :
            NonDecreasing(r[f]) =>
                /\ legs[k].sindex[f] = FirstAtLeast(r[f], legs[k].startts)
                /\ legs[k].eindex[f] = FirstAtLeast(r[f], legs[k].endts)

\* C1 witness: a second leg whose range of a three-reading series starts
\* after the first reading and ends before the last
C1_Witness ==
    /\ pc = "indexed"
    /\ Len(legs) = 2
    /\ Len(r["HDG"]) = 3
    /\ legs[2].sindex["HDG"] = 1
    /\ legs[2].eindex["HDG"] = 2

\* C2: after analyze_race, for every field and successive legs k, k+1:
\* 0 <= sindex[k] <= eindex[k] <= sindex[k+1] <= eindex[k+1] <= len(series).
C2_Monotone ==
    pc # "load" =>
        \A k \in 1..Len(legs), f \in legFields :
            /\ 0 <= legs[k].sindex[f]
            /\ legs[k].sindex[f] <= legs[k].eindex[f]
            /\ legs[k].eindex[f] <= Len(r[f])
            /\ k < Len(legs) => legs[k].eindex[f] <= legs[k + 1].sindex[f]

\* C2 witness: two legs, each holding readings of one series, with a reading
\* left after the second leg
C2_Witness ==
    /\ pc = "indexed"
    /\ Len(legs) = 2
    /\ \E f \in legFields :
          /\ legs[1].sindex[f] < legs[1].eindex[f]
          /\ legs[2].sindex[f] < legs[2].eindex[f]
          /\ legs[2].eindex[f] < Len(r[f])

parsedFields == {"AWA", "AWS", "STW", "RUD", "COG", "SOG", "HDG", "LATLON"}

C4_AwaRange ==
    \A i \in 1..Len(r["AWA"]) : -180 < r["AWA"][i][2] /\ r["AWA"][i][2] <= 180

\* ------------------------------------------------------ Sample Aggregator
\* the legs analyze_leg has run on
Analyzed == 1..Len(course)

\* the bucket windows of a leg: they start every sampleSeconds from the leg
\* start, the last one is clipped to the leg end
BucketStarts(l) ==
    {l.startts + sampleSeconds * j : j \in 0..((l.endts - l.startts) \div sampleSeconds)}
        \cap {t \in l.startts..(l.endts - 1) : TRUE}
BucketEndOf(l, bs) == Min(bs + sampleSeconds, l.endts)

\* the readings of field f with a timestamp in [lo, hi)
ReadingsIn(f, lo, hi) == {i \in 1..Len(r[f]) : lo <= r[f][i][1] /\ r[f][i][1] < hi}

\* the samples of leg k made from the bucket that starts at bs
SamplesAt(k, bs) == {i \in 1..Len(legs[k].samples) : legs[k].samples[i]["ts"] = bs}

\* C5: a bucket whose time window contains no reading of any field is not
\* present in the leg's samples; every bucket present in samples has at least
\* one non-null field other than its timestamp.
C5_BucketDiscard ==
    \A k \in Analyzed :
        /\ \A bs \in BucketStarts(legs[k]) :
              (\A f \in raceRawFields : ReadingsIn(f, bs, BucketEndOf(legs[k], bs)) = {})
                  => SamplesAt(k, bs) = {}
        /\ \A i \in 1..Len(legs[k].samples) :
              \E f \in bucketFields : legs[k].samples[i][f] # Null

\* C5 witness: a leg of two buckets, the first with a reading and retained,
\* the second with none and absent
C5_Witness ==
    \E k \in Analyzed :
        /\ legs[k].endts - legs[k].startts > sampleSeconds
        /\ SamplesAt(k, legs[k].startts) # {}
        /\ \A f \in raceRawFields :
              ReadingsIn(f, legs[k].startts + sampleSeconds, legs[k].endts) = {}
        /\ SamplesAt(k, legs[k].startts + sampleSeconds) = {}

\* the values of field f read in the bucket of leg k that starts at bs
ValuesIn(k, f, bs) ==
    {r[f][i][2] : i \in ReadingsIn(f, bs, BucketEndOf(legs[k], bs))}

\* C6 (as claimed): when one bucket's heading readings are {350, 10} and the
\* leg's bearing is southerly, the bucket's averaged heading is 0, the
\* circular mean, not 180.
C6_CircularMean ==
    \A k \in Analyzed : \A bs \in BucketStarts(legs[k]) :
        ( /\ course[k] > 90 /\ course[k] < 270
          /\ ValuesIn(k, "HDG", bs) = {350, 10}
          /\ Cardinality(ReadingsIn("HDG", bs, BucketEndOf(legs[k], bs))) = 2 )
        => \A i \in SamplesAt(k, bs) : QEq(legs[k].samples[i]["HDG"], QInt(0))

\* C7 (as claimed): with raw COG/HDG/TWD readings in [0, 360), every non-null
\* averaged COG, HDG and TWD of a bucket lies in [0, 360).
C7_AngleRange ==
    \A k \in Analyzed : \A i \in 1..Len(legs[k].samples) : \A f \in angularFields :
        LET v == legs[k].samples[i][f]
        IN  v # Null => QLe(QInt(0), v) /\ QLt(v, QInt(360))

\* the average analyze_leg takes of field f over the bucket of leg k at bs
AverageAt(k, f, bs) ==
    FieldMean(FieldRun(legs[k], f, legs[k].sindex[f], bs, BucketEndOf(legs[k], bs), course[k]),
              f, course[k])

windInputs == {"HDG", "COG", "SOG", "AWA", "AWS"}

\* C9: in every bucket where one of HDG, COG, SOG, AWA, AWS is null the TWA is
\* null and no true wind is derived, and the bucketing of the leg completes
\* without an exception (so every bucket with a reading of an averaged field
\* other than the supplied true wind is in the samples).
C9_NoWindWithoutInputs ==
    /\ err = "none"
    /\ pc # "failed"
    /\ \A k \in Analyzed :
          /\ \A i \in 1..Len(legs[k].samples) :
                (\E f \in windInputs : legs[k].samples[i][f] = Null) =>
                    /\ legs[k].samples[i]["TWA"] = Null
                    /\ legs[k].samples[i]["TWD"] = Null
                    /\ legs[k].samples[i]["TWS"] = Null
          /\ \A bs \in BucketStarts(legs[k]) :
                (\E f \in {"AWA", "AWS", "STW", "SOG", "RUD", "COG", "HDG"} :
                    AverageAt(k, f, bs) # Null) => SamplesAt(k, bs) # {}

\* C9 witness: a retained bucket with COG, SOG, AWA and AWS but no heading
C9_Witness ==
    \E k \in Analyzed : \E i \in 1..Len(legs[k].samples) :
        /\ legs[k].samples[i]["HDG"] = Null
        /\ \A f \in windInputs \ {"HDG"} : legs[k].samples[i][f] # Null
        /\ legs[k].samples[i]["TWA"] = Null

\* the bucket of the true wind round trip: heading 0 (360 when the mean was
\* converted back), COG 0, SOG 5.0 kt, AWA 90, AWS 10.0 kt, no supplied wind
AbeamBucket(k, i) ==
    LET b == legs[k].samples[i]
    IN  /\ \A f \in windInputs : b[f] # Null
        /\ AverageAt(k, "TWD", b["ts"]) = Null
        /\ QEq(b["HDG"], QInt(0)) \/ QEq(b["HDG"], QInt(360))
        /\ QEq(b["COG"], QInt(0)) \/ QEq(b["COG"], QInt(360))
        /\ QEq(b["SOG"], QInt(500))
        /\ QEq(b["AWA"], QInt(90))
        /\ QEq(b["AWS"], QInt(1000))

\* C10: for heading 0, COG 0, SOG 5.0, AWA 90, AWS 10.0 the derived wind is the
\* closed-form vector solution: the wind blows from (east 10, north -5), so
\* TWS = sqrt(125) = 11.18 kt and TWD = 180 - atan(2) = 116.57 degrees, to the
\* model's resolution (centi-knots rounded down, the nearest whole degree);
\* and in every bucket with a true wind TWA = (TWD - HDG) mod 360.
C10_TrueWind ==
    \A k \in Analyzed : \A i \in 1..Len(legs[k].samples) :
        LET b == legs[k].samples[i]
        IN  /\ AbeamBucket(k, i) =>
                /\ b["TWS"][1] * b["TWS"][1] <= 125 * 100 * 100 * b["TWS"][2] * b["TWS"][2]
                /\ 125 * 100 * 100 * b["TWS"][2] * b["TWS"][2]
                      < (b["TWS"][1] + b["TWS"][2]) * (b["TWS"][1] + b["TWS"][2])
                /\ b["TWD"] = QInt(117)
                /\ b["TWA"] = QInt(117)
            /\ b["TWA"] # Null =>
                /\ QLe(QInt(0), b["TWA"]) /\ QLt(b["TWA"], QInt(360))
                /\ \E n \in {-1, 0, 1} :
                      b["TWA"][1] * b["TWD"][2] * b["HDG"][2]
                        = (b["TWD"][1] * b["HDG"][2] - b["HDG"][1] * b["TWD"][2]
                             + 360 * n * b["TWD"][2] * b["HDG"][2]) * b["TWA"][2]

\* C10 witness: the abeam bucket, with its derived wind
C10_Witness ==
    \E k \in Analyzed : \E i \in 1..Len(legs[k].samples) :
        /\ AbeamBucket(k, i)
        /\ legs[k].samples[i]["TWA"] = QInt(117)

\* ------------------------------------------------------ Maneuver Segmenter
\* the leg under report and its samples
ReportedLeg == legs[1]
Segmented == pc \in {"boards", "reported"}

\* C11 (as claimed): the boards cover the whole leg: the first board starts at
\* the leg start and the last board's end timestamp equals the leg end.
C11_WholeLeg ==
    Segmented =>
        /\ boards[1][1] = ReportedLeg.startts
        /\ boards[Len(boards)][2] = ReportedLeg.endts

\* C12 (as claimed): consecutive boards are non-overlapping and contiguous:
\* start_i <= end_i and end_i = start_{i+1}.
C12_Contiguous ==
    Segmented =>
        /\ \A k \in 1..Len(boards) : boards[k][1] <= boards[k][2]
        /\ \A k \in 1..(Len(boards) - 1) : boards[k][2] = boards[k + 1][1]

\* C12 (amended): consecutive boards are ordered and never overlap, with the
\* manoeuvre between them in neither: start_i <= end_i < start_{i+1}.
C12_Ordered ==
    Segmented =>
        /\ \A k \in 1..Len(boards) : boards[k][1] <= boards[k][2]
        /\ \A k \in 1..(Len(boards) - 1) : boards[k][2] < boards[k + 1][1]

\* C12 witness: a leg of three boards
C12_Witness == Segmented /\ Len(boards) = 3

\* a sample outside the exclusion bands: 25 < |AWA| < 165
InBand(s) ==
    /\ s["AWA"] # Null
    /\ \/ QLt(<<25, 1>>, s["AWA"]) /\ QLt(s["AWA"], <<165, 1>>)
       \/ QLt(<<-165, 1>>, s["AWA"]) /\ QLt(s["AWA"], <<-25, 1>>)
Side(s) == IF s["AWA"][1] < 0 THEN "Port" ELSE "Stbd"

\* the samples that decide the board: the first one and every later one
\* outside the exclusion bands
Deciding == {1} \cup {n \in 2..Len(ReportedLeg.samples) : InBand(ReportedLeg.samples[n])}

\* the deciding samples whose side is not the side of the one before them
Disagreeing ==
    {n \in Deciding :
        \E m \in Deciding :
            /\ m < n
            /\ \A q \in Deciding : ~(m < q /\ q < n)
            /\ Side(ReportedLeg.samples[m]) # Side(ReportedLeg.samples[n])}

\* the averaged AWA of the five buckets of the leg: -40, -40, +40, +40, -40
PortStbdPort ==
    /\ Len(ReportedLeg.samples) > 0
    /\ \A k \in 1..LegBuckets :
          \E n \in 1..Len(ReportedLeg.samples) :
              /\ ReportedLeg.samples[n]["ts"] = ReportedLeg.startts + sampleSeconds * (k - 1)
              /\ ReportedLeg.samples[n]["AWA"] = <<(<<-40, -40, 40, 40, -40>>)[k], 1>>

\* C13: consecutive boards carry opposite tags, the first board is Port iff the
\* first sample's AWA is negative, the number of boards is 1 plus the number
\* of reliable samples that disagree with the board current at them, and the
\* AWA sequence -40, -40, +40, +40, -40 gives Port, Stbd, Port.
C13_Alternate ==
    Segmented =>
        /\ \A k \in 1..(Len(boards) - 1) :
              {boards[k][3], boards[k + 1][3]} = {"Port", "Stbd"}
        /\ (boards[1][3] = "Port") <=> (ReportedLeg.samples[1]["AWA"][1] < 0)
        /\ boards[1][3] \in {"Port", "Stbd"}
        /\ Len(boards) = 1 + Cardinality(Disagreeing)
        /\ PortStbdPort => [k \in 1..Len(boards) |-> boards[k][3]] = <<"Port", "Stbd", "Port">>

\* C13 witness: the leg of the AWA sequence, segmented
C13_Witness == Segmented /\ PortStbdPort /\ Len(boards) = 3

\* the last sample outside the exclusion bands among the first n
LastInBand(n) ==
    LET seen == {m \in 1..n : InBand(ReportedLeg.samples[m])}
    IN  IF seen = {} THEN 0 ELSE CHOOSE m \in seen : \A q \in seen : q <= m

\* the first sample made from the bucket that starts at t
FirstAt(t) ==
    CHOOSE n \in 1..Len(ReportedLeg.samples) :
        /\ ReportedLeg.samples[n]["ts"] = t
        /\ \A m \in 1..(n - 1) : ReportedLeg.samples[m]["ts"] # t

\* C14: a sample with |AWA| <= 25 or >= 165 never opens or closes a board and
\* never moves a board's end: every board after the first opens at the
\* timestamp of a reliable sample that disagrees with the board before it,
\* every closed board ends at the timestamp of the last reliable sample before
\* that one, and the last board ends at the last reliable sample of the leg.
C14_ReliableEnds ==
    Segmented =>
        /\ \A k \in 2..Len(boards) :
              /\ \E n \in Disagreeing : ReportedLeg.samples[n]["ts"] = boards[k][1]
              /\ InBand(ReportedLeg.samples[FirstAt(boards[k][1])])
              /\ LET m == LastInBand(FirstAt(boards[k][1]) - 1)
                 IN  m # 0 => boards[k - 1][2] = ReportedLeg.samples[m]["ts"]
        /\ LET m == LastInBand(Len(ReportedLeg.samples))
           IN  m # 0 => boards[Len(boards)][2] = ReportedLeg.samples[m]["ts"]

\* C14 witness: a board closed over samples at the thresholds: reliable
\* samples in the first and the last bucket, threshold samples between them
C14_Witness ==
    /\ Segmented
    /\ Len(boards) = 2
    /\ boards[1][2] = ReportedLeg.startts
    /\ boards[2][1] = ReportedLeg.startts + sampleSeconds * (LegBuckets - 1)
    /\ \E n \in 1..Len(ReportedLeg.samples) :
          /\ ReportedLeg.samples[n]["AWA"] = <<25, 1>>
          /\ boards[1][3] = "Port"
    /\ \E n \in 1..Len(ReportedLeg.samples) : ReportedLeg.samples[n]["AWA"] = <<-165, 1>>

\* the first sample of the leg with an apparent wind angle
Valid == {n \in 1..Len(ReportedLeg.samples) : ReportedLeg.samples[n]["AWA"] # Null}

\* C15 (as claimed): the initial board is taken from the first sample whose
\* AWA is non-null; samples with a null AWA, at the start of the leg or later,
\* are skipped and the segmentation of the leg completes without failure.
C15_NullAwaSkipped ==
    /\ (\E n \in 1..Len(ReportedLeg.samples) : ReportedLeg.samples[n]["AWA"] = Null)
          => pc # "failed"
    /\ (Segmented /\ Valid # {}) =>
          boards[1][3] = Side(ReportedLeg.samples[CHOOSE n \in Valid : \A m \in Valid : n <= m])

\* ------------------------------------------------------------ Polar Builder
\* the samples of the gathered leg that belong to range p
SamplesOfRange(p) ==
    {n \in 1..Len(legs[1].samples) :
        legs[1].samples[n]["TWS"] # Null /\ RangeOf(legs[1].samples[n]["TWS"]) = p}

\* C16 (as claimed): gather_polar_data handles every retained sample without
\* failure; a sample with TWS below the last upper bound is appended to
\* exactly one range, the first whose upper bound is strictly greater than
\* its speed, and a sample at or above the last bound to none.
C16_OneRange ==
    /\ pc # "failed"
    /\ (pc = "gathered" /\ races > 0) =>
          \A p \in 1..Len(polarMax) :
              /\ Len(polarData[p]) = Cardinality(SamplesOfRange(p))
              /\ \A k \in 1..Len(polarData[p]) :
                    \E n \in SamplesOfRange(p) :
                        polarData[p][k] = Datum(legs[1].samples[n], 0)

\* ------------------------------------------------------------- plot_polars
\* the adjacent pairs of points that are not strictly increasing in angle
Backwards == {i \in 0..(Len(points) - 2) : ~QLt(points[i + 1].b, points[i + 2].b)}

\* C17: the sector points produced by sector bucketing followed by gap
\* interpolation are strictly increasing in angle; the order check flags
\* exactly the adjacent pairs that are not, and leaves the sequence as it is.
C17_StrictlyIncreasing ==
    /\ Backwards = {}
    /\ pc \in {"checked", "plotted"} => flagged = Backwards

\* C17 witness: a checked sequence of sector points with inserted ones
C17_Witness ==
    /\ pc = "checked"
    /\ \E i \in 1..Len(points) : points[i].made = "insert"
    /\ \E i, j \in 1..Len(points) : i # j /\ points[i].made = "sector" /\ points[j].made = "sector"

\* the sailable bands: starboard [minTWA, maxTWA], port [360-maxTWA, 360-minTWA]
StbdBand(b) == QLe(<<25, 1>>, b) /\ QLe(b, <<165, 1>>)
PortBand(b) == QLe(<<195, 1>>, b) /\ QLe(b, <<335, 1>>)

\* the sector points around the point at index i
SectorBefore(i) ==
    CHOOSE j \in 1..(i - 1) :
        /\ points[j].made = "sector"
        /\ \A k \in (j + 1)..(i - 1) : points[k].made = "insert"
SectorAfter(i) ==
    CHOOSE j \in (i + 1)..Len(points) :
        /\ points[j].made = "sector"
        /\ \A k \in (i + 1)..(j - 1) : points[k].made = "insert"

\* C18 (as claimed): every inserted point lies inside one sailable band and is
\* interpolated between two sector points of that same band; none is inserted
\* between a starboard-band point and a port-band point or across the no-go
\* zone.
C18_SameBand ==
    \A i \in 1..Len(points) :
        points[i].made = "insert" =>
            \/ /\ StbdBand(points[i].b)
               /\ StbdBand(points[SectorBefore(i)].b)
               /\ StbdBand(points[SectorAfter(i)].b)
            \/ /\ PortBand(points[i].b)
               /\ PortBand(points[SectorBefore(i)].b)
               /\ PortBand(points[SectorAfter(i)].b)

InStbdCurve(p) == QLe(<<25, 1>>, p.b) /\ QLe(p.b, <<165, 1>>)
InPortCurve(p) == QLt(<<195, 1>>, p.b) /\ QLe(p.b, <<335, 1>>)

\* C19 (as claimed): per side the curve is built from exactly the points whose
\* angle is inside that side's band (starboard 25 <= angle <= 165, port
\* 195 < angle <= 335), also when no point beyond the band exists.
C19_ExactBand ==
    pc = "plotted" =>
        /\ curves.stbd = SelectSeq(points, InStbdCurve)
        /\ curves.port = SelectSeq(points, InPortCurve)

\* ------------------------------------------------------------- idempotence
\* two buckets with the same timestamp and the same averages, null for null
SameBucket(a, b) ==
    /\ a["ts"] = b["ts"]
    /\ \A f \in bucketFields :
          IF a[f] = Null \/ b[f] = Null THEN a[f] = b[f] ELSE QEq(a[f], b[f])

\* C20 (as claimed): running parse_race, analyze_race and analyze_leg for
\* every leg again on the same race, with the same file and configuration,
\* yields the same per-leg samples as the first run.
C20_SameSamples ==
    (firstRun # <<>> /\ pc = "analyzed") =>
        \A k \in 1..Len(legs) :
            /\ Len(legs[k].samples) = Len(firstRun[1][k].samples)
            /\ \A i \in 1..Len(legs[k].samples) :
                  i <= Len(firstRun[1][k].samples)
                      => SameBucket(legs[k].samples[i], firstRun[1][k].samples[i])

\* ------------------------------------------------ failure handling (C21..C22)
\* C21: a malformed line or record is skipped and the parsing of the file
\* continues: after a conversion error the read loop is still running, so that
\* the well-formed records that follow can be recorded.
C21_MalformedSkipped == err = "ValueError" => pc = "parse"

\* the races of the run, as <<position in regattalist, position in the regatta>>
RacesOfRun ==
    {n \in (1..Len(regattalist)) \X (1..MaxRaces) :
        n[2] <= Len(regattas[regattalist[n[1]]].races)}
DataOf(n) == regattas[regattalist[n[1]]].races[n[2]]
Processed(n) ==
    \E i \in 1..Len(processed) :
        /\ processed[i].run = started
        /\ processed[i].regatta = regattalist[n[1]]
        /\ processed[i].race = n[2]

\* C22: when the data file of one race cannot be opened, or its conversion
\* cannot be started, the failure is confined to that race: every other race
\* of the run whose data file exists (in a regatta with a time zone) is still
\* parsed, indexed and bucketed by the time the run ends.
C22_FailureConfined ==
    (pc = "failed" /\ err = "FileNotFoundError") =>
        \A n \in RacesOfRun :
            (n # at /\ DataOf(n) \in files /\ regattas[regattalist[n[1]]].tz # Null)
                => Processed(n)

\* ------------------------------------------------- memoized conversion (C23)
\* C23 as stated: the conversion runs at most once per raw capture: no two
\* conversions were run on the same data file of the same regatta.
C23_OncePerCapture ==
    \A i, j \in 1..Len(invoked) :
        (invoked[i].data = invoked[j].data
            /\ invoked[i].jsonfile[1] = invoked[j].jsonfile[1]) => i = j

\* C23: parse_race_n2k runs the conversion only when the structured file of
\* the race does not exist, hence at most once per structured file: no two
\* conversions wrote the same structured file, and the structured file a
\* conversion wrote is in place for every later call.
C23_OncePerStructuredFile ==
    /\ \A i, j \in 1..Len(invoked) : invoked[i].jsonfile = invoked[j].jsonfile => i = j
    /\ \A i \in 1..Len(invoked) : jsons[invoked[i].jsonfile] # "absent"

\* a race converted by the first run is read by the second run from the
\* structured file the first run left
C23_Witness ==
    \E i, j \in 1..Len(processed) :
        /\ processed[i].run = 1
        /\ processed[j].run = 2
        /\ processed[i].regatta = processed[j].regatta
        /\ processed[i].race = processed[j].race
        /\ processed[j].data = "records"
        /\ \E k \in 1..Len(invoked) :
              invoked[k].jsonfile = <<processed[i].regatta, processed[i].race>>

\* ------------------------------------------- process-wide configuration (C30)
\* the description of the regatta of that name
DescriptionOf(name) == args[CHOOSE i \in 1..Len(args) : args[i].regatta = name]

\* C30: each race is parsed with the rudder correction and the position and
\* COG/SOG source filters of the regatta it belongs to.
C30_OwnConfiguration ==
    \A i \in 1..Len(processed) :
        /\ processed[i].rudderCorrection = DescriptionOf(processed[i].regatta).rudderCorrection
        /\ processed[i].LATLONSOURCE = DescriptionOf(processed[i].regatta).latlonSource
        /\ processed[i].COGSOGSOURCE = DescriptionOf(processed[i].regatta).cogsogSource

WindowsOf(l, t) == {bs \in BucketStarts(l) : bs <= t /\ t < BucketEndOf(l, bs)}

\* the readings of field f in leg l's range [sindex, eindex) with a timestamp
\* in the bucket window that starts at bs
Contributing(l, f, bs) ==
    {i \in (l.sindex[f] + 1)..l.eindex[f] :
        bs <= r[f][i][1] /\ r[f][i][1] < BucketEndOf(l, bs)}

RECURSIVE SumOf(_, _)
SumOf(f, idx) ==
    IF idx = {} THEN 0
    ELSE LET i == CHOOSE j \in idx : TRUE IN r[f][i][2] + SumOf(f, idx \ {i})

\* the linear fields no later step of analyze_leg writes
measuredFields == linearFields \ {"TWS"}

\* C25: analyze_leg, on series with non-decreasing timestamps: the bucket
\* windows, sampleSeconds wide from the leg start with the last one clipped to
\* the leg end, partition [leg start, leg end); every reading of a field in
\* the leg's range [sindex, eindex) lies in exactly one window; a bucket's
\* linear field is the arithmetic mean of the readings of its window, and null
\* when the window holds none.
C25_BucketMeans ==
    err = "none" =>
        \A k \in Analyzed :
            /\ \A t \in legs[k].startts..(legs[k].endts - 1) :
                  Cardinality(WindowsOf(legs[k], t)) = 1
            /\ \A i \in 1..Len(legs[k].samples) :
                  legs[k].samples[i]["ts"] \in BucketStarts(legs[k])
            /\ \A f \in linearFields : \A i \in (legs[k].sindex[f] + 1)..legs[k].eindex[f] :
                  Cardinality(WindowsOf(legs[k], r[f][i][1])) = 1
            /\ \A bs \in BucketStarts(legs[k]) :
                  /\ \A f \in linearFields :
                        LinearMean(FieldRun(legs[k], f, legs[k].sindex[f], bs,
                                            BucketEndOf(legs[k], bs), course[k]))
                            = IF Contributing(legs[k], f, bs) = {} THEN Null
                              ELSE <<SumOf(f, Contributing(legs[k], f, bs)),
                                     Cardinality(Contributing(legs[k], f, bs))>>
                  /\ \A f \in measuredFields :
                        IF Contributing(legs[k], f, bs) = {}
                        THEN \A i \in SamplesAt(k, bs) : legs[k].samples[i][f] = Null
                        ELSE /\ SamplesAt(k, bs) # {}
                             /\ \A i \in SamplesAt(k, bs) :
                                   legs[k].samples[i][f]
                                       = <<SumOf(f, Contributing(legs[k], f, bs)),
                                           Cardinality(Contributing(legs[k], f, bs))>>

\* a leg of two buckets: the first averages two different rudder readings, the
\* second is retained for its heading and has no rudder reading
C25_Witness ==
    /\ err = "none"
    /\ \E k \in Analyzed :
          /\ legs[k].endts - legs[k].startts > sampleSeconds
          /\ Cardinality({r["RUD"][i][2] : i \in Contributing(legs[k], "RUD", legs[k].startts)}) = 2
          /\ Contributing(legs[k], "RUD", legs[k].startts + sampleSeconds) = {}
          /\ \E i \in SamplesAt(k, legs[k].startts + sampleSeconds) :
                legs[k].samples[i]["RUD"] = Null

\* ------------------------------------------- board and leg summaries (C26..)
\* the rows of the report that carry a summary
DataRows == {i \in 1..Len(items) : ~items[i].comment}

\* the board a Minute row was made for
BoardOfRow(row) ==
    CHOOSE k \in 1..Len(boards) : boards[k][1] <= row.start /\ row.end <= boards[k][2]

\* the samples a row summarises
RowSamples(row) ==
    IF row.t = "Leg" THEN legs[1].samples
    ELSE IF row.t = "Board"
    THEN BoardSamples(legs[1].samples, <<row.start, row.end, row.board>>)
    ELSE BucketSamples(BoardSamples(legs[1].samples, boards[BoardOfRow(row)]),
                       row.start, row.end)

\* the samples of a sequence that have a value for field f
Having(samples, f) ==
    LET Has(x) == x[f] # Null
    IN  SelectSeq(samples, Has)

\* the sum of analyze_leg's terms for whole-degree values of field f
RECURSIVE AggregatorTotal(_, _, _, _)
AggregatorTotal(samples, f, markBearing, i) ==
    IF i = 0 THEN 0
    ELSE AngleTerm(samples[i][f][1], markBearing)
            + AggregatorTotal(samples, f, markBearing, i - 1)

\* the angle analyze_leg's averaging gives for the values of field f
AggregatedAngle(samples, f, markBearing) ==
    AngularMean([total |-> AggregatorTotal(samples, f, markBearing, Len(samples)),
                 count |-> Len(samples)], markBearing)

\* C26: the board and leg summaries remap an angle before averaging, and the
\* mean back, as analyze_leg does for the same leg bearing: when every
\* summarised sample has a heading, the heading of a Board or Leg row is the
\* angle analyze_leg's averaging gives for the same values.
C26_SameRemap ==
    \A i \in DataRows :
        ( /\ items[i].t \in {"Board", "Leg"}
          /\ Len(RowSamples(items[i])) > 0
          /\ Having(RowSamples(items[i]), "HDG") = RowSamples(items[i]) )
        => QEq(items[i].savg["HDG"],
               AggregatedAngle(RowSamples(items[i]), "HDG", course[1]))

\* C27: every retained bucket appears exactly once in the leg's samples: the
\* timestamps of the samples of an analysed leg are strictly increasing.
C27_OncePerBucket ==
    \A k \in Analyzed : \A i \in 1..(Len(legs[k].samples) - 1) :
        legs[k].samples[i]["ts"] < legs[k].samples[i + 1]["ts"]

RECURSIVE TotalOf(_, _, _)
TotalOf(samples, f, i) ==
    IF i = 0 THEN QInt(0) ELSE QPlus(TotalOf(samples, f, i - 1), samples[i][f])

\* the mean of field f over the samples that have a value for it
MeanOfHaving(samples, f) ==
    LET h == Having(samples, f)
    IN  IF Len(h) = 0 THEN Null
        ELSE <<TotalOf(h, f, Len(h))[1], TotalOf(h, f, Len(h))[2] * Len(h)>>

\* C28: average_sample_fields: the summary value of a field is the mean over
\* the samples in which the field is non-null (here for the fields averaged
\* without remapping), and null when no sample has the field.
C28_MeanOfNonNull ==
    \A i \in DataRows : \A f \in avg_fields \ summaryAngles :
        IF MeanOfHaving(RowSamples(items[i]), f) = Null
        THEN items[i].savg[f] = Null
        ELSE /\ items[i].savg[f] # Null
             /\ QEq(items[i].savg[f], MeanOfHaving(RowSamples(items[i]), f))

\* the Minute rows of board k whose window took in a sample of timestamp t
MinuteRowsAt(k, t) ==
    {j \in DataRows :
        /\ items[j].t = "Minute"
        /\ boards[k][1] <= items[j].start /\ items[j].end <= boards[k][2]
        /\ items[j].start < t /\ t <= items[j].end}

\* C29: analyze_by_minute: every sample of a board (timestamp in [boardStart,
\* boardEnd]) is averaged in exactly one Minute row of that board, the sample
\* at the board start included; so a board with a sample has a Minute row.
C29_EverySampleInOneWindow ==
    pc = "reported" =>
        \A k \in 1..Len(boards) : \A i \in 1..Len(legs[1].samples) :
            (boards[k][1] <= legs[1].samples[i]["ts"]
                /\ legs[1].samples[i]["ts"] <= boards[k][2])
            => Cardinality(MinuteRowsAt(k, legs[1].samples[i]["ts"])) = 1


====
